---------------------------- MODULE Spec2Model ----------------------------
(***************************************************************************)
(* State-machine model of three-d:                                         *)
(*   - src/phong/forward_instanced_mesh.rs  (PhongForwardInstancedMesh and  *)
(*     the process-wide program statics),                                  *)
(*   - src/window/winit_window/frame_input_generator.rs                    *)
(*     (FrameInputGenerator: handle_winit_window_event and generate).      *)
(*                                                                         *)
(* Rust's Option<T> is modelled as a set with at most one element:         *)
(* None is {} and Some(x) is {x}.                                          *)
(***************************************************************************)
EXTENDS Integers, Sequences, FiniteSets, TLC

None == {}

Some(x) == {x}

IsNone(o) == o = {}

IsSome(o) == o # {}

Unwrap(o) == CHOOSE x \in o : TRUE

(***************************************************************************)
(* Bounds of the model.                                                    *)
(***************************************************************************)
\* number of PhongForwardInstancedMesh objects that can be live at a time
MaxMeshes == 2

\* total number of InstancedMesh::create_program calls over a run
MaxCompiles == 2

\* total number of events the FrameInputGenerator pushes over a run
MaxEmitted == 2

\* number of generate calls over a run
MaxFrames == 2

\* total number of events pushed over a touch gesture that is followed to
\* the press after a lift
MaxGesture == 4

\* total number of events pushed over a run of keyboard input
MaxKeyEvents == 3

\* total number of events pushed over a run of touches, mouse and keys
MaxSlotEvents == 3

(***************************************************************************)
(* Part 1: PhongForwardInstancedMesh and the cached programs.              *)
(***************************************************************************)
VARIABLES
    INSTANCED_MESH_COUNT,                         \* static mut u32; the u32
                            \* range is never left: at most MaxMeshes objects
                            \* exist, and a value below 0 would be an underflow
    INSTANCED_PROGRAM_COLOR_AMBIENT,              \* static mut Option<Program>
    INSTANCED_PROGRAM_COLOR_AMBIENT_DIRECTIONAL,  \* static mut Option<Program>
    INSTANCED_PROGRAM_TEXTURE_AMBIENT,            \* static mut Option<Program>
    INSTANCED_PROGRAM_TEXTURE_AMBIENT_DIRECTIONAL,\* static mut Option<Program>
    meshes,                \* fields of an object -> number of live objects
                           \* with these fields (objects that agree on them
                           \* are interchangeable)
    create_program_calls,  \* slot -> number of create_program calls made for it
    ret                    \* what the most recent call was given, did and returned

phong_vars == << INSTANCED_MESH_COUNT,
                 INSTANCED_PROGRAM_COLOR_AMBIENT,
                 INSTANCED_PROGRAM_COLOR_AMBIENT_DIRECTIONAL,
                 INSTANCED_PROGRAM_TEXTURE_AMBIENT,
                 INSTANCED_PROGRAM_TEXTURE_AMBIENT_DIRECTIONAL,
                 meshes, create_program_calls, ret >>

\* the state of Part 2 (FrameInputGenerator)
VARIABLES
    gen,        \* the FrameInputGenerator: a record of the struct's fields
    macos,      \* cfg!(target_os = "macos"), fixed by the build
    emitted,    \* every Event pushed so far, in the order of the pushes
    delivered,  \* the events of every FrameInput returned so far, concatenated
    frame,      \* Option of the FrameInput the latest generate returned
    frames,     \* number of generate calls so far
    touched,    \* a window event was handled since the latest generate
    quiet,      \* the latest generate came with no window event handled
                \* since the generate before it
    panicked    \* an unwrap() of None was reached: the thread has panicked

input_vars == << gen, macos, emitted, delivered, frame, frames, touched,
                 quiet, panicked >>

\* the state of Part 3 (Rectangle)
VARIABLES
    rectangle,  \* Option of the Rectangle: None where none was constructed
    rect_call   \* Option of the latest call on the Rectangle and its arguments

rect_vars == << rectangle, rect_call >>

vars == << phong_vars, input_vars, rect_vars >>

\* ColorSource::Color(_) | ColorSource::Texture(_): only the kind is modelled
ColorSources == {"Color", "Texture"}

\* what the model keeps of an object: material.color_source (its kind) and
\* the answer of mesh.has_uvs()
MeshKinds == [color_source : ColorSources, has_uvs : BOOLEAN]

\* the three render entry points, named by the lighting they are asked for
Modes == {"DepthOnly", "Ambient", "AmbientDirectional"}

Slots == {"COLOR_AMBIENT", "COLOR_AMBIENT_DIRECTIONAL",
          "TEXTURE_AMBIENT", "TEXTURE_AMBIENT_DIRECTIONAL"}

\* Which graphics-API call of a render fails, if it is reached:
\*   compile : InstancedMesh::create_program
\*   uniform : add_uniform_vec3 / add_uniform_float / use_texture(shadowMap)
\*   color   : add_uniform_vec4(surfaceColor) / use_texture(tex)
\*   draw    : InstancedMesh::render
Faults == {"none", "compile", "uniform", "color", "draw"}

\* the value of a program static, by name
Program(slot) ==
    CASE slot = "COLOR_AMBIENT" -> INSTANCED_PROGRAM_COLOR_AMBIENT
      [] slot = "COLOR_AMBIENT_DIRECTIONAL" -> INSTANCED_PROGRAM_COLOR_AMBIENT_DIRECTIONAL
      [] slot = "TEXTURE_AMBIENT" -> INSTANCED_PROGRAM_TEXTURE_AMBIENT
      [] slot = "TEXTURE_AMBIENT_DIRECTIONAL" -> INSTANCED_PROGRAM_TEXTURE_AMBIENT_DIRECTIONAL

\* render_with_ambient: the static its match on color_source selects
AmbientSlot(color_source) ==
    IF color_source = "Color" THEN "COLOR_AMBIENT" ELSE "TEXTURE_AMBIENT"

\* render_with_ambient_and_directional: the static its match selects
AmbientDirectionalSlot(color_source) ==
    IF color_source = "Color" THEN "COLOR_AMBIENT_DIRECTIONAL"
                              ELSE "TEXTURE_AMBIENT_DIRECTIONAL"

\* the static a render entry point resolves: render_depth forwards to
\* render_with_ambient with AmbientLight::default()
SlotOf(color_source, mode) ==
    IF mode = "AmbientDirectional" THEN AmbientDirectionalSlot(color_source)
                                   ELSE AmbientSlot(color_source)

Live == {m \in MeshKinds : meshes[m] > 0}

\* the number of live objects
LiveCount ==
    LET Count(color_source) ==
          meshes[[color_source |-> color_source, has_uvs |-> FALSE]]
          + meshes[[color_source |-> color_source, has_uvs |-> TRUE]]
    IN Count("Color") + Count("Texture")

\* the programs the four statics hold
Cached == UNION {Program(s) : s \in Slots}

TotalCalls ==
    create_program_calls["COLOR_AMBIENT"]
    + create_program_calls["COLOR_AMBIENT_DIRECTIONAL"]
    + create_program_calls["TEXTURE_AMBIENT"]
    + create_program_calls["TEXTURE_AMBIENT_DIRECTIONAL"]

\* op, mesh, color_source, mode, has_normals, fault: the call and its inputs;
\* res: the Result returned; drew: self.mesh.render was reached;
\* released: the programs whose Option was overwritten with None
NoCall == [op |-> "none", mesh |-> None, res |-> "Ok", color_source |-> "Color",
           mode |-> "Ambient", has_normals |-> TRUE, fault |-> "none",
           program |-> None, before |-> None, drew |-> FALSE,
           released |-> {}]

PhongInit ==
    /\ INSTANCED_MESH_COUNT = 0
    /\ INSTANCED_PROGRAM_COLOR_AMBIENT = None
    /\ INSTANCED_PROGRAM_COLOR_AMBIENT_DIRECTIONAL = None
    /\ INSTANCED_PROGRAM_TEXTURE_AMBIENT = None
    /\ INSTANCED_PROGRAM_TEXTURE_AMBIENT_DIRECTIONAL = None
    /\ meshes = [m \in MeshKinds |-> 0]
    /\ create_program_calls = [s \in Slots |-> 0]
    /\ ret = NoCall

\* the request a call made, if it resolved a program: its color source, its
\* mode and the program
Resolved(call) ==
    IF IsSome(call.program)
    THEN Some(<< call.color_source, call.mode, Unwrap(call.program) >>)
    ELSE None

ProgramsUnchanged ==
    UNCHANGED << INSTANCED_PROGRAM_COLOR_AMBIENT,
                 INSTANCED_PROGRAM_COLOR_AMBIENT_DIRECTIONAL,
                 INSTANCED_PROGRAM_TEXTURE_AMBIENT,
                 INSTANCED_PROGRAM_TEXTURE_AMBIENT_DIRECTIONAL >>

\* New with the counter incremented before the normals check
New_CountsBeforeCheck(has_normals, mesh_ok, color_source, has_uvs) ==
    /\ LiveCount < MaxMeshes
    /\ INSTANCED_MESH_COUNT' = INSTANCED_MESH_COUNT + 1
    /\ IF ~has_normals
       THEN /\ ret' = [NoCall EXCEPT !.op = "new", !.res = "FailedToCreateMesh",
                                     !.has_normals = FALSE]
            /\ UNCHANGED meshes
       ELSE IF ~mesh_ok
       THEN /\ ret' = [NoCall EXCEPT !.op = "new", !.res = "InstancedMeshError"]
            /\ UNCHANGED meshes
       ELSE /\ meshes' = [meshes EXCEPT
                 ![[color_source |-> color_source, has_uvs |-> has_uvs]] = @ + 1]
            /\ ret' = [NoCall EXCEPT !.op = "new",
                                     !.mesh = Some([color_source |-> color_source,
                                                    has_uvs |-> has_uvs]),
                                     !.color_source = color_source]
    /\ ProgramsUnchanged
    /\ UNCHANGED create_program_calls
    /\ UNCHANGED << input_vars, rect_vars >>

\* PhongForwardInstancedMesh::new.
\* has_normals: cpu_mesh.normals.is_some(); mesh_ok: InstancedMesh::new is Ok;
\* has_uvs: what self.mesh.has_uvs() will answer.
New(has_normals, mesh_ok, color_source, has_uvs) ==
    /\ LiveCount < MaxMeshes
    /\ IF ~has_normals
       THEN /\ ret' = [NoCall EXCEPT !.op = "new", !.res = "FailedToCreateMesh",
                                     !.has_normals = FALSE]
            /\ UNCHANGED << INSTANCED_MESH_COUNT, meshes >>
       ELSE IF ~mesh_ok
       THEN /\ ret' = [NoCall EXCEPT !.op = "new", !.res = "InstancedMeshError"]
            /\ UNCHANGED << INSTANCED_MESH_COUNT, meshes >>
       ELSE /\ INSTANCED_MESH_COUNT' = INSTANCED_MESH_COUNT + 1
            /\ meshes' = [meshes EXCEPT
                 ![[color_source |-> color_source, has_uvs |-> has_uvs]] = @ + 1]
            /\ ret' = [NoCall EXCEPT !.op = "new",
                                     !.mesh = Some([color_source |-> color_source,
                                                    has_uvs |-> has_uvs]),
                                     !.color_source = color_source]
    /\ ProgramsUnchanged
    /\ UNCHANGED create_program_calls
    /\ UNCHANGED << input_vars, rect_vars >>

\* the assignment `STATIC = Some(create_program(..)?)` to the static named slot
SetProgram(slot, value) ==
    /\ INSTANCED_PROGRAM_COLOR_AMBIENT' =
         IF slot = "COLOR_AMBIENT" THEN value ELSE INSTANCED_PROGRAM_COLOR_AMBIENT
    /\ INSTANCED_PROGRAM_COLOR_AMBIENT_DIRECTIONAL' =
         IF slot = "COLOR_AMBIENT_DIRECTIONAL" THEN value
         ELSE INSTANCED_PROGRAM_COLOR_AMBIENT_DIRECTIONAL
    /\ INSTANCED_PROGRAM_TEXTURE_AMBIENT' =
         IF slot = "TEXTURE_AMBIENT" THEN value ELSE INSTANCED_PROGRAM_TEXTURE_AMBIENT
    /\ INSTANCED_PROGRAM_TEXTURE_AMBIENT_DIRECTIONAL' =
         IF slot = "TEXTURE_AMBIENT_DIRECTIONAL" THEN value
         ELSE INSTANCED_PROGRAM_TEXTURE_AMBIENT_DIRECTIONAL

\* What a render does once it holds its program: the light uniforms, the
\* color source (for a texture the uv check, then the binding), then
\* self.mesh.render. `call` is the record of the call so far.
BindAndDraw_NoUvCheck(call, self, fault) ==
    IF fault \in {"uniform", "color"}
    THEN [call EXCEPT !.res = "BindError"]
    ELSE IF fault = "draw"
    THEN [call EXCEPT !.res = "DrawError", !.drew = TRUE]
    ELSE [call EXCEPT !.drew = TRUE]

BindAndDraw(call, self, fault) ==
    IF fault = "uniform"
    THEN [call EXCEPT !.res = "BindError"]
    ELSE IF self.color_source = "Texture" /\ ~self.has_uvs
    THEN [call EXCEPT !.res = "FailedToCreateMesh"]
    ELSE IF fault = "color"
    THEN [call EXCEPT !.res = "BindError"]
    ELSE IF fault = "draw"
    THEN [call EXCEPT !.res = "DrawError", !.drew = TRUE]
    ELSE [call EXCEPT !.drew = TRUE]

\* `fault` names the fallible call of a render that fails, "none" if none
\* does. Only a call the render reaches can fail: create_program is called
\* on a miss, and the color binding and the draw come after the uv check.
FaultReached(fault, miss, self) ==
    /\ fault = "compile" => miss
    /\ fault \in {"color", "draw"} =>
         ~(self.color_source = "Texture" /\ ~self.has_uvs)

\* RenderOn with a failed create_program tried a second time
RenderOn_Retries(op, m, mode, slot, fault) ==
    LET self     == m
        miss     == IsNone(Program(slot))
        call     == [NoCall EXCEPT !.op = op, !.mesh = Some(m), !.mode = mode,
                                   !.color_source = self.color_source,
                                   !.fault = fault, !.before = Resolved(ret)]
        compiled == Some(<< slot, create_program_calls[slot] + 1 >>)
        program  == IF miss THEN compiled ELSE Program(slot)
    IN
    /\ FaultReached(fault, miss, self)
    /\ miss => TotalCalls < MaxCompiles
    /\ create_program_calls' =
         IF miss
         THEN [create_program_calls EXCEPT
                 ![slot] = @ + (IF fault = "compile" THEN 2 ELSE 1)]
         ELSE create_program_calls
    /\ IF miss /\ fault = "compile"
       THEN /\ ret' = [call EXCEPT !.res = "CompileError"]
            /\ ProgramsUnchanged
       ELSE /\ SetProgram(slot, program)
            /\ ret' = BindAndDraw([call EXCEPT !.program = program], self, fault)
    /\ UNCHANGED << INSTANCED_MESH_COUNT, meshes >>
    /\ UNCHANGED << input_vars, rect_vars >>

\* The body shared by render_with_ambient and
\* render_with_ambient_and_directional, on the static `slot`:
\*   1. if the static is None, create_program; its error returns before the
\*      assignment (the `?` inside Some(..));
\*   2. BindAndDraw.
RenderOn(op, m, mode, slot, fault) ==
    LET self     == m
        miss     == IsNone(Program(slot))
        call     == [NoCall EXCEPT !.op = op, !.mesh = Some(m), !.mode = mode,
                                   !.color_source = self.color_source,
                                   !.fault = fault, !.before = Resolved(ret)]
        \* the program object a successful create_program returns: a new
        \* object, named by the static and the call that made it
        compiled == Some(<< slot, create_program_calls[slot] + 1 >>)
        program  == IF miss THEN compiled ELSE Program(slot)
    IN
    /\ FaultReached(fault, miss, self)
    /\ miss => TotalCalls < MaxCompiles
    /\ create_program_calls' =
         IF miss THEN [create_program_calls EXCEPT ![slot] = @ + 1]
                 ELSE create_program_calls
    /\ IF miss /\ fault = "compile"
       THEN /\ ret' = [call EXCEPT !.res = "CompileError"]
            /\ ProgramsUnchanged
       ELSE /\ SetProgram(slot, program)
            /\ ret' = BindAndDraw([call EXCEPT !.program = program], self, fault)
    /\ UNCHANGED << INSTANCED_MESH_COUNT, meshes >>
    /\ UNCHANGED << input_vars, rect_vars >>

\* PhongForwardInstancedMesh::render_with_ambient
render_with_ambient(op, m, mode, fault) ==
    /\ meshes[m] > 0
    /\ RenderOn(op, m, mode, AmbientSlot(m.color_source), fault)

\* render_depth resolving the directional program instead
render_depth_Directional(m, fault) ==
    /\ meshes[m] > 0
    /\ RenderOn("render_depth", m, "DepthOnly",
                AmbientDirectionalSlot(m.color_source), fault)

\* PhongForwardInstancedMesh::render_depth
render_depth(m, fault) ==
    render_with_ambient("render_depth", m, "DepthOnly", fault)

\* PhongForwardInstancedMesh::render_with_ambient_and_directional
render_with_ambient_and_directional(m, fault) ==
    /\ meshes[m] > 0
    /\ RenderOn("render_with_ambient_and_directional", m, "AmbientDirectional",
                AmbientDirectionalSlot(m.color_source), fault)

\* ClearPrograms with one static forgotten
ClearPrograms_ForgetsOne ==
    /\ INSTANCED_PROGRAM_COLOR_AMBIENT' = None
    /\ INSTANCED_PROGRAM_COLOR_AMBIENT_DIRECTIONAL' = None
    /\ INSTANCED_PROGRAM_TEXTURE_AMBIENT' = None
    /\ UNCHANGED INSTANCED_PROGRAM_TEXTURE_AMBIENT_DIRECTIONAL

\* the four assignments of None made when the counter reaches zero
ClearPrograms ==
    /\ INSTANCED_PROGRAM_COLOR_AMBIENT' = None
    /\ INSTANCED_PROGRAM_COLOR_AMBIENT_DIRECTIONAL' = None
    /\ INSTANCED_PROGRAM_TEXTURE_AMBIENT' = None
    /\ INSTANCED_PROGRAM_TEXTURE_AMBIENT_DIRECTIONAL' = None

\* the color source a static's program is for
SlotColor(slot) ==
    IF slot \in {"COLOR_AMBIENT", "COLOR_AMBIENT_DIRECTIONAL"} THEN "Color"
                                                                ELSE "Texture"

\* Drop that clears the programs while one object is still left
Drop_OffByOne(m) ==
    /\ meshes[m] > 0
    /\ INSTANCED_MESH_COUNT' = INSTANCED_MESH_COUNT - 1
    /\ IF INSTANCED_MESH_COUNT' <= 1
       THEN /\ ClearPrograms
       ELSE /\ ProgramsUnchanged
    /\ meshes' = [meshes EXCEPT ![m] = @ - 1]
    /\ ret' = [NoCall EXCEPT !.op = "drop", !.mesh = Some(m),
                             !.color_source = m.color_source,
                             !.released = Cached \ Cached']
    /\ UNCHANGED create_program_calls
    /\ UNCHANGED << input_vars, rect_vars >>

\* Drop that releases the programs of the dropped object's color source as
\* soon as no other live object has that color source
Drop_PerVariant(m) ==
    LET color == m.color_source
        alone == /\ meshes[m] = 1
                 /\ \A n \in Live \ {m} : n.color_source # color
        After(slot) == IF alone /\ SlotColor(slot) = color THEN None
                                                          ELSE Program(slot)
    IN
    /\ meshes[m] > 0
    /\ INSTANCED_MESH_COUNT' = INSTANCED_MESH_COUNT - 1
    /\ INSTANCED_PROGRAM_COLOR_AMBIENT' = After("COLOR_AMBIENT")
    /\ INSTANCED_PROGRAM_COLOR_AMBIENT_DIRECTIONAL' = After("COLOR_AMBIENT_DIRECTIONAL")
    /\ INSTANCED_PROGRAM_TEXTURE_AMBIENT' = After("TEXTURE_AMBIENT")
    /\ INSTANCED_PROGRAM_TEXTURE_AMBIENT_DIRECTIONAL' = After("TEXTURE_AMBIENT_DIRECTIONAL")
    /\ meshes' = [meshes EXCEPT ![m] = @ - 1]
    /\ ret' = [NoCall EXCEPT !.op = "drop", !.mesh = Some(m), !.color_source = color,
                             !.released = Cached \ Cached']
    /\ UNCHANGED create_program_calls
    /\ UNCHANGED << input_vars, rect_vars >>

\* Drop, were the counter left as it is
Drop_KeepsCount(m) ==
    /\ meshes[m] > 0
    /\ UNCHANGED INSTANCED_MESH_COUNT
    /\ ProgramsUnchanged
    /\ meshes' = [meshes EXCEPT ![m] = @ - 1]
    /\ ret' = [NoCall EXCEPT !.op = "drop", !.mesh = Some(m),
                             !.color_source = m.color_source]
    /\ UNCHANGED create_program_calls
    /\ UNCHANGED << input_vars, rect_vars >>

\* impl Drop for PhongForwardInstancedMesh
Drop(m) ==
    /\ meshes[m] > 0
    /\ INSTANCED_MESH_COUNT' = INSTANCED_MESH_COUNT - 1
    /\ IF INSTANCED_MESH_COUNT' = 0
       THEN /\ ClearPrograms
       ELSE /\ ProgramsUnchanged
    /\ meshes' = [meshes EXCEPT ![m] = @ - 1]
    /\ ret' = [NoCall EXCEPT !.op = "drop", !.mesh = Some(m),
                             !.color_source = m.color_source,
                             !.released = Cached \ Cached']
    /\ UNCHANGED create_program_calls
    /\ UNCHANGED << input_vars, rect_vars >>

PhongNext ==
    \/ \E has_normals \in BOOLEAN, mesh_ok \in BOOLEAN,
          color_source \in ColorSources, has_uvs \in BOOLEAN :
          New(has_normals, mesh_ok, color_source, has_uvs)
    \/ \E m \in MeshKinds, fault \in Faults : render_depth(m, fault)
    \/ \E m \in MeshKinds, fault \in Faults :
          render_with_ambient("render_with_ambient", m, "Ambient", fault)
    \/ \E m \in MeshKinds, fault \in Faults :
          render_with_ambient_and_directional(m, fault)
    \/ \E m \in MeshKinds : Drop(m)


(***************************************************************************)
(* Part 2: FrameInputGenerator.                                            *)
(*                                                                         *)
(* Coordinates and scale factors are integers; the physical coordinates    *)
(* the events carry are multiples of every scale factor used, so that the  *)
(* f32/f64 divisions of to_logical are exact. Times are whole              *)
(* milliseconds.                                                           *)
(***************************************************************************)

\* winit::event::ElementState
ElementStates == {"Pressed", "Released"}

\* winit::event::TouchPhase
Phases == {"Started", "Moved", "Ended", "Cancelled"}

Abs(x) == IF x < 0 THEN -x ELSE x

\* Modifiers::default()
NoModifiers == [alt |-> FALSE, ctrl |-> FALSE, shift |-> FALSE, command |-> FALSE]

\* Viewport::new_at_origo
new_at_origo(width, height) == [x |-> 0, y |-> 0, width |-> width, height |-> height]

\* PhysicalPosition::to_logical::<f32>, one coordinate: v / scale_factor
to_logical(v, scale_factor) == v \div scale_factor

\* PhysicalSize<u32>::to_logical into u32, one dimension: v / scale_factor
\* rounded to the nearest integer (Pixel::from_f64 for u32 rounds),
\* halves away from zero
size_to_logical(v, scale_factor) == (2 * v + scale_factor) \div (2 * scale_factor)

\* the LogicalPoint built from a physical location ( <<x, y>> )
LogicalPoint(g, location) ==
    [x |-> to_logical(location[1], g.device_pixel_ratio),
     y |-> to_logical(location[2], g.device_pixel_ratio),
     device_pixel_ratio |-> g.device_pixel_ratio,
     height |-> g.viewport.height]

\* crate::Event, one constructor per variant
KeyPress(kind, modifiers) ==
    [type |-> "KeyPress", kind |-> kind, modifiers |-> modifiers, handled |-> FALSE]

KeyRelease(kind, modifiers) ==
    [type |-> "KeyRelease", kind |-> kind, modifiers |-> modifiers, handled |-> FALSE]

ModifiersChange(modifiers) == [type |-> "ModifiersChange", modifiers |-> modifiers]

MouseMotion(button, delta, position, modifiers) ==
    [type |-> "MouseMotion", button |-> button, delta |-> delta,
     position |-> position, modifiers |-> modifiers, handled |-> FALSE]

MousePress(button, position, modifiers) ==
    [type |-> "MousePress", button |-> button, position |-> position,
     modifiers |-> modifiers, handled |-> FALSE]

MouseRelease(button, position, modifiers) ==
    [type |-> "MouseRelease", button |-> button, position |-> position,
     modifiers |-> modifiers, handled |-> FALSE]

MouseWheel(delta, position, modifiers) ==
    [type |-> "MouseWheel", delta |-> delta, position |-> position,
     modifiers |-> modifiers, handled |-> FALSE]

MouseEnter == [type |-> "MouseEnter"]

MouseLeave == [type |-> "MouseLeave"]

Text(ch) == [type |-> "Text", text |-> ch]

\* self.events.push(event)
Push(g, event) == [g EXCEPT !.events = Append(@, event)]

\* FrameInputGenerator::new; last_time is Instant::now(), read as `now`
new(size, device_pixel_ratio, now) ==
    [events |-> << >>,
     accumulated_time |-> 0,
     viewport |-> new_at_origo(size[1], size[2]),
     window_width |-> size_to_logical(size[1], device_pixel_ratio),
     window_height |-> size_to_logical(size[2], device_pixel_ratio),
     device_pixel_ratio |-> device_pixel_ratio,
     first_frame |-> TRUE,
     last_time |-> now,
     cursor_pos |-> None,
     finger_id |-> None,
     secondary_cursor_pos |-> None,
     secondary_finger_id |-> None,
     modifiers |-> NoModifiers,
     mouse_pressed |-> None]

\* translate_virtual_key_code as a table: winit VirtualKeyCode -> crate::Key;
\* a key code outside the table translates to None
KeyTable ==
    [Down |-> "ArrowDown", Left |-> "ArrowLeft", Right |-> "ArrowRight",
     Up |-> "ArrowUp",
     Escape |-> "Escape", Tab |-> "Tab", Back |-> "Backspace",
     Return |-> "Enter", Space |-> "Space",
     Insert |-> "Insert", Delete |-> "Delete", Home |-> "Home", End |-> "End",
     PageUp |-> "PageUp", PageDown |-> "PageDown",
     Key0 |-> "Num0", Numpad0 |-> "Num0", Key1 |-> "Num1", Numpad1 |-> "Num1",
     Key2 |-> "Num2", Numpad2 |-> "Num2", Key3 |-> "Num3", Numpad3 |-> "Num3",
     Key4 |-> "Num4", Numpad4 |-> "Num4", Key5 |-> "Num5", Numpad5 |-> "Num5",
     Key6 |-> "Num6", Numpad6 |-> "Num6", Key7 |-> "Num7", Numpad7 |-> "Num7",
     Key8 |-> "Num8", Numpad8 |-> "Num8", Key9 |-> "Num9", Numpad9 |-> "Num9",
     A |-> "A", B |-> "B", C |-> "C", D |-> "D", E |-> "E", F |-> "F",
     G |-> "G", H |-> "H", I |-> "I", J |-> "J", K |-> "K", L |-> "L",
     M |-> "M", N |-> "N", O |-> "O", P |-> "P", Q |-> "Q", R |-> "R",
     S |-> "S", T |-> "T", U |-> "U", V |-> "V", W |-> "W", X |-> "X",
     Y |-> "Y", Z |-> "Z"]

translate_virtual_key_code(key) ==
    IF key \in DOMAIN KeyTable THEN Some(KeyTable[key]) ELSE None

\* is_printable_char, on the character's code point
is_printable_char(chr) ==
    LET is_in_private_use_area ==
            \/ (57344 <= chr /\ chr <= 63743)        \* e000 ..= f8ff
            \/ (983040 <= chr /\ chr <= 1048573)     \* f0000 ..= ffffd
            \/ (1048576 <= chr /\ chr <= 1114109)    \* 100000 ..= 10fffd
        is_ascii_control == chr <= 31 \/ chr = 127
    IN ~is_in_private_use_area /\ ~is_ascii_control

\* WindowEvent::Resized(physical_size)
OnResized(g, physical_size) ==
    [g EXCEPT
       !.viewport = new_at_origo(physical_size[1], physical_size[2]),
       !.window_width = size_to_logical(physical_size[1], g.device_pixel_ratio),
       !.window_height = size_to_logical(physical_size[2], g.device_pixel_ratio)]

\* the ScaleFactorChanged handler, were the logical size taken at the
\* device pixel ratio of before the change
OnScaleFactorChanged_OldRatio(g, scale_factor, new_inner_size) ==
    [g EXCEPT
       !.device_pixel_ratio = scale_factor,
       !.viewport = new_at_origo(new_inner_size[1], new_inner_size[2]),
       !.window_width = size_to_logical(new_inner_size[1], g.device_pixel_ratio),
       !.window_height = size_to_logical(new_inner_size[2], g.device_pixel_ratio)]

\* WindowEvent::ScaleFactorChanged { scale_factor, new_inner_size }
OnScaleFactorChanged(g, scale_factor, new_inner_size) ==
    [g EXCEPT
       !.device_pixel_ratio = scale_factor,
       !.viewport = new_at_origo(new_inner_size[1], new_inner_size[2]),
       !.window_width = size_to_logical(new_inner_size[1], scale_factor),
       !.window_height = size_to_logical(new_inner_size[2], scale_factor)]

\* the modifiers stored and announced by a modifier key
SetModifiers(g, modifiers) ==
    Push([g EXCEPT !.modifiers = modifiers], ModifiersChange(modifiers))

\* the KeyboardInput handler, were LWin and RWin modifier keys on every
\* target
OnKeyboardInput_MetaEverywhere(g, virtual_keycode, element_state) ==
    IF IsNone(virtual_keycode) THEN g
    ELSE
      LET keycode == Unwrap(virtual_keycode)
          state   == element_state = "Pressed"
          kind    == translate_virtual_key_code(keycode)
      IN
      IF IsSome(kind)
      THEN Push(g, IF state THEN KeyPress(Unwrap(kind), g.modifiers)
                            ELSE KeyRelease(Unwrap(kind), g.modifiers))
      ELSE IF keycode \in {"LControl", "RControl"}
      THEN SetModifiers(g, [g.modifiers EXCEPT
                              !.ctrl = state,
                              !.command = IF ~macos THEN state ELSE @])
      ELSE IF keycode \in {"LAlt", "RAlt"}
      THEN SetModifiers(g, [g.modifiers EXCEPT !.alt = state])
      ELSE IF keycode \in {"LShift", "RShift"}
      THEN SetModifiers(g, [g.modifiers EXCEPT !.shift = state])
      ELSE IF keycode \in {"LWin", "RWin"}
      THEN SetModifiers(g, [g.modifiers EXCEPT !.command = state])
      ELSE g

\* the KeyboardInput handler, were Ctrl to set the ctrl flag alone on every
\* target
OnKeyboardInput_CtrlOnly(g, virtual_keycode, element_state) ==
    IF IsNone(virtual_keycode) THEN g
    ELSE
      LET keycode == Unwrap(virtual_keycode)
          state   == element_state = "Pressed"
          kind    == translate_virtual_key_code(keycode)
      IN
      IF IsSome(kind)
      THEN Push(g, IF state THEN KeyPress(Unwrap(kind), g.modifiers)
                            ELSE KeyRelease(Unwrap(kind), g.modifiers))
      ELSE IF keycode \in {"LControl", "RControl"}
      THEN SetModifiers(g, [g.modifiers EXCEPT !.ctrl = state])
      ELSE IF keycode \in {"LAlt", "RAlt"}
      THEN SetModifiers(g, [g.modifiers EXCEPT !.alt = state])
      ELSE IF keycode \in {"LShift", "RShift"}
      THEN SetModifiers(g, [g.modifiers EXCEPT !.shift = state])
      ELSE IF keycode \in {"LWin", "RWin"} /\ macos
      THEN SetModifiers(g, [g.modifiers EXCEPT !.command = state])
      ELSE g

\* the KeyboardInput handler, were a Shift key event to flip the shift flag
\* on a press and keep it on a release of one of two presses
OnKeyboardInput_ShiftToggles(g, virtual_keycode, element_state) ==
    IF IsNone(virtual_keycode) THEN g
    ELSE
      LET keycode == Unwrap(virtual_keycode)
          state   == element_state = "Pressed"
          kind    == translate_virtual_key_code(keycode)
      IN
      IF IsSome(kind)
      THEN Push(g, IF state THEN KeyPress(Unwrap(kind), g.modifiers)
                            ELSE KeyRelease(Unwrap(kind), g.modifiers))
      ELSE IF keycode \in {"LControl", "RControl"}
      THEN SetModifiers(g, [g.modifiers EXCEPT
                              !.ctrl = state,
                              !.command = IF ~macos THEN state ELSE @])
      ELSE IF keycode \in {"LAlt", "RAlt"}
      THEN SetModifiers(g, [g.modifiers EXCEPT !.alt = state])
      ELSE IF keycode \in {"LShift", "RShift"}
      THEN SetModifiers(g, [g.modifiers EXCEPT !.shift = (state # @)])
      ELSE IF keycode \in {"LWin", "RWin"} /\ macos
      THEN SetModifiers(g, [g.modifiers EXCEPT !.command = state])
      ELSE g

\* WindowEvent::KeyboardInput { input, .. }: virtual_keycode is an Option
OnKeyboardInput(g, virtual_keycode, element_state) ==
    IF IsNone(virtual_keycode) THEN g
    ELSE
      LET keycode == Unwrap(virtual_keycode)
          state   == element_state = "Pressed"
          kind    == translate_virtual_key_code(keycode)
      IN
      IF IsSome(kind)
      THEN Push(g, IF state THEN KeyPress(Unwrap(kind), g.modifiers)
                            ELSE KeyRelease(Unwrap(kind), g.modifiers))
      ELSE IF keycode \in {"LControl", "RControl"}
      THEN SetModifiers(g, [g.modifiers EXCEPT
                              !.ctrl = state,
                              !.command = IF ~macos THEN state ELSE @])
      ELSE IF keycode \in {"LAlt", "RAlt"}
      THEN SetModifiers(g, [g.modifiers EXCEPT !.alt = state])
      ELSE IF keycode \in {"LShift", "RShift"}
      THEN SetModifiers(g, [g.modifiers EXCEPT !.shift = state])
      ELSE IF keycode \in {"LWin", "RWin"} /\ macos
      THEN SetModifiers(g, [g.modifiers EXCEPT !.command = state])
      ELSE g

\* the MouseWheel handler, were a pixel delta passed on in physical pixels
OnMouseWheel_PhysicalPixels(g, delta) ==
    IF IsNone(g.cursor_pos) THEN g
    ELSE
      LET position    == Unwrap(g.cursor_pos)
          line_height == 24
      IN
      IF delta.kind = "LineDelta"
      THEN Push(g, MouseWheel(<< delta.x * line_height, delta.y * line_height >>,
                              position, g.modifiers))
      ELSE Push(g, MouseWheel(<< delta.x, delta.y >>, position, g.modifiers))

\* WindowEvent::MouseWheel { delta, .. }: delta is
\* [kind |-> "LineDelta" or "PixelDelta", x, y]
OnMouseWheel(g, delta) ==
    IF IsNone(g.cursor_pos) THEN g
    ELSE
      LET position    == Unwrap(g.cursor_pos)
          line_height == 24
      IN
      IF delta.kind = "LineDelta"
      THEN Push(g, MouseWheel(<< delta.x * line_height, delta.y * line_height >>,
                              position, g.modifiers))
      ELSE Push(g, MouseWheel(<< to_logical(delta.x, g.device_pixel_ratio),
                                 to_logical(delta.y, g.device_pixel_ratio) >>,
                              position, g.modifiers))

\* WindowEvent::MouseInput { state, button, .. }
OnMouseInput(g, element_state, button) ==
    IF IsNone(g.cursor_pos) THEN g
    ELSE
      LET position == Unwrap(g.cursor_pos)
          b == IF button \in {"Left", "Middle", "Right"} THEN Some(button) ELSE None
      IN
      IF IsNone(b) THEN g
      ELSE IF element_state = "Pressed"
      THEN Push([g EXCEPT !.mouse_pressed = b],
                MousePress(Unwrap(b), position, g.modifiers))
      ELSE Push([g EXCEPT !.mouse_pressed = None],
                MouseRelease(Unwrap(b), position, g.modifiers))

\* WindowEvent::CursorMoved { position, .. }
OnCursorMoved(g, location) ==
    LET position == LogicalPoint(g, location)
        delta == IF IsSome(g.cursor_pos)
                 THEN << position.x - Unwrap(g.cursor_pos).x,
                         position.y - Unwrap(g.cursor_pos).y >>
                 ELSE << 0, 0 >>
    IN [Push(g, MouseMotion(g.mouse_pressed, delta, position, g.modifiers))
          EXCEPT !.cursor_pos = Some(position)]

\* the ReceivedCharacter handler, were the modifiers not consulted
OnReceivedCharacter_IgnoresModifiers(g, ch) ==
    IF is_printable_char(ch) THEN Push(g, Text(ch)) ELSE g

\* WindowEvent::ReceivedCharacter(ch)
OnReceivedCharacter(g, ch) ==
    IF is_printable_char(ch) /\ ~g.modifiers.ctrl /\ ~g.modifiers.command
    THEN Push(g, Text(ch))
    ELSE g

\* WindowEvent::CursorEntered { .. }
OnCursorEntered(g) == Push(g, MouseEnter)

\* the CursorLeft handler, were the cursor position forgotten as well
OnCursorLeft_ForgetsCursor(g) ==
    Push([g EXCEPT !.mouse_pressed = None, !.cursor_pos = None], MouseLeave)

\* WindowEvent::CursorLeft { .. }
OnCursorLeft(g) == Push([g EXCEPT !.mouse_pressed = None], MouseLeave)

\* the Touch-Start handler, were the second touch announced by a press of
\* its own
OnTouchStarted_SecondPress(g, id, position) ==
    IF IsNone(g.finger_id)
    THEN [Push(g, MousePress("Left", position, g.modifiers))
            EXCEPT !.cursor_pos = Some(position), !.finger_id = Some(id)]
    ELSE IF IsNone(g.secondary_finger_id)
    THEN [Push(g, MousePress("Left", position, g.modifiers))
            EXCEPT !.secondary_cursor_pos = Some(position),
                   !.secondary_finger_id = Some(id)]
    ELSE g

\* the Touch-Start handler, were a third touch to take over the secondary
\* slot
OnTouchStarted_ThirdTakesSecondary(g, id, position) ==
    IF IsNone(g.finger_id)
    THEN [Push(g, MousePress("Left", position, g.modifiers))
            EXCEPT !.cursor_pos = Some(position), !.finger_id = Some(id)]
    ELSE [g EXCEPT !.secondary_cursor_pos = Some(position),
                   !.secondary_finger_id = Some(id)]

\* WindowEvent::Touch(touch), TouchPhase::Started
OnTouchStarted(g, id, position) ==
    IF IsNone(g.finger_id)
    THEN [Push(g, MousePress("Left", position, g.modifiers))
            EXCEPT !.cursor_pos = Some(position), !.finger_id = Some(id)]
    ELSE IF IsNone(g.secondary_finger_id)
    THEN [g EXCEPT !.secondary_cursor_pos = Some(position),
                   !.secondary_finger_id = Some(id)]
    ELSE g

\* the Touch-End handler, were the secondary touch promoted to the primary
\* slot when the primary touch is lifted
OnTouchEnded_Promotes(g, id, position) ==
    IF g.finger_id = Some(id)
    THEN [Push(g, MouseRelease("Left", position, g.modifiers))
            EXCEPT !.cursor_pos = g.secondary_cursor_pos,
                   !.finger_id = g.secondary_finger_id,
                   !.secondary_cursor_pos = None,
                   !.secondary_finger_id = None]
    ELSE IF g.secondary_finger_id = Some(id)
    THEN [g EXCEPT !.secondary_cursor_pos = None, !.secondary_finger_id = None]
    ELSE g

\* WindowEvent::Touch(touch), TouchPhase::Ended | TouchPhase::Cancelled
OnTouchEnded(g, id, position) ==
    IF g.finger_id = Some(id)
    THEN [Push(g, MouseRelease("Left", position, g.modifiers))
            EXCEPT !.cursor_pos = None, !.finger_id = None]
    ELSE IF g.secondary_finger_id = Some(id)
    THEN [g EXCEPT !.secondary_cursor_pos = None, !.secondary_finger_id = None]
    ELSE g

\* the wheel delta, were the signed offsets from the other touch compared
WheelDelta_Signed(position, last_pos, p) ==
    << (position.x - p.x) - (last_pos.x - p.x),
       (position.y - p.y) - (last_pos.y - p.y) >>

\* the delta of the synthesized wheel event: the change, per axis, of the
\* distance between the moved touch and the other touch p
WheelDelta(position, last_pos, p) ==
    << Abs(position.x - p.x) - Abs(last_pos.x - p.x),
       Abs(position.y - p.y) - Abs(last_pos.y - p.y) >>

\* the Touch-Move handler, were the motion delta taken from the new position
\* back to the last one
OnTouchMoved_ReversedDelta(g, id, position) ==
    IF g.finger_id = Some(id)
    THEN LET last_pos == Unwrap(g.cursor_pos) IN
         [(IF IsSome(g.secondary_cursor_pos)
           THEN Push(g, MouseWheel(WheelDelta(position, last_pos,
                                              Unwrap(g.secondary_cursor_pos)),
                                   position, g.modifiers))
           ELSE Push(g, MouseMotion(Some("Left"),
                                    << last_pos.x - position.x,
                                       last_pos.y - position.y >>,
                                    position, g.modifiers)))
            EXCEPT !.cursor_pos = Some(position)]
    ELSE IF g.secondary_finger_id = Some(id)
    THEN LET last_pos == Unwrap(g.secondary_cursor_pos) IN
         [(IF IsSome(g.cursor_pos)
           THEN Push(g, MouseWheel(WheelDelta(position, last_pos,
                                              Unwrap(g.cursor_pos)),
                                   Unwrap(g.cursor_pos), g.modifiers))
           ELSE g)
            EXCEPT !.secondary_cursor_pos = Some(position)]
    ELSE g

\* WindowEvent::Touch(touch), TouchPhase::Moved. cursor_pos.unwrap() and
\* secondary_cursor_pos.unwrap() panic on None: the handler is then not
\* enabled (see OnTouch), and Unwrap is never applied to None here.
OnTouchMoved(g, id, position) ==
    IF g.finger_id = Some(id)
    THEN LET last_pos == Unwrap(g.cursor_pos) IN
         [(IF IsSome(g.secondary_cursor_pos)
           THEN Push(g, MouseWheel(WheelDelta(position, last_pos,
                                              Unwrap(g.secondary_cursor_pos)),
                                   position, g.modifiers))
           ELSE Push(g, MouseMotion(Some("Left"),
                                    << position.x - last_pos.x,
                                       position.y - last_pos.y >>,
                                    position, g.modifiers)))
            EXCEPT !.cursor_pos = Some(position)]
    ELSE IF g.secondary_finger_id = Some(id)
    THEN LET last_pos == Unwrap(g.secondary_cursor_pos) IN
         [(IF IsSome(g.cursor_pos)
           THEN Push(g, MouseWheel(WheelDelta(position, last_pos,
                                              Unwrap(g.cursor_pos)),
                                   Unwrap(g.cursor_pos), g.modifiers))
           ELSE g)
            EXCEPT !.secondary_cursor_pos = Some(position)]
    ELSE g

\* the Touch-Move handler reaches an unwrap() of None
TouchMovePanics(g, id) ==
    \/ g.finger_id = Some(id) /\ IsNone(g.cursor_pos)
    \/ /\ g.finger_id # Some(id)
       /\ g.secondary_finger_id = Some(id)
       /\ IsNone(g.secondary_cursor_pos)

\* WindowEvent::Touch(touch)
OnTouch(g, phase, id, location) ==
    LET position == LogicalPoint(g, location) IN
    CASE phase = "Started" -> OnTouchStarted(g, id, position)
      [] phase \in {"Ended", "Cancelled"} -> OnTouchEnded(g, id, position)
      [] phase = "Moved" -> OnTouchMoved(g, id, position)

\* the match of handle_winit_window_event on the event: the generator after it
Handled(g, event) ==
    CASE event.type = "Resized" -> OnResized(g, event.size)
      [] event.type = "ScaleFactorChanged" ->
           OnScaleFactorChanged(g, event.scale_factor, event.size)
      [] event.type = "KeyboardInput" ->
           OnKeyboardInput(g, event.virtual_keycode, event.state)
      [] event.type = "MouseWheel" -> OnMouseWheel(g, event.delta)
      [] event.type = "MouseInput" -> OnMouseInput(g, event.state, event.button)
      [] event.type = "CursorMoved" -> OnCursorMoved(g, event.location)
      [] event.type = "ReceivedCharacter" -> OnReceivedCharacter(g, event.ch)
      [] event.type = "CursorEntered" -> OnCursorEntered(g)
      [] event.type = "CursorLeft" -> OnCursorLeft(g)
      [] event.type = "Touch" -> OnTouch(g, event.phase, event.id, event.location)
      [] OTHER -> g

\* generate, were the queue copied into the snapshot and not drained
generate_KeepsQueue(g, now) ==
    LET elapsed_time == now - g.last_time
        g1 == [g EXCEPT !.accumulated_time = @ + elapsed_time, !.last_time = now]
    IN [self |-> [g1 EXCEPT !.first_frame = FALSE],
        frame_input |->
            [events |-> g1.events,
             elapsed_time |-> elapsed_time,
             accumulated_time |-> g1.accumulated_time,
             viewport |-> g1.viewport,
             window_width |-> g1.window_width,
             window_height |-> g1.window_height,
             device_pixel_ratio |-> g1.device_pixel_ratio,
             first_frame |-> g1.first_frame]]

\* generate, were first_frame never cleared
generate_KeepsFirstFrame(g, now) ==
    LET elapsed_time == now - g.last_time
        g1 == [g EXCEPT !.accumulated_time = @ + elapsed_time, !.last_time = now]
    IN [self |-> [g1 EXCEPT !.events = << >>],
        frame_input |->
            [events |-> g1.events,
             elapsed_time |-> elapsed_time,
             accumulated_time |-> g1.accumulated_time,
             viewport |-> g1.viewport,
             window_width |-> g1.window_width,
             window_height |-> g1.window_height,
             device_pixel_ratio |-> g1.device_pixel_ratio,
             first_frame |-> g1.first_frame]]

\* generate, were the pointer forgotten with the frame
generate_ForgetsPointer(g, now) ==
    LET elapsed_time == now - g.last_time
        g1 == [g EXCEPT !.accumulated_time = @ + elapsed_time, !.last_time = now]
    IN [self |-> [g1 EXCEPT !.events = << >>, !.first_frame = FALSE,
                            !.cursor_pos = None, !.mouse_pressed = None],
        frame_input |->
            [events |-> g1.events,
             elapsed_time |-> elapsed_time,
             accumulated_time |-> g1.accumulated_time,
             viewport |-> g1.viewport,
             window_width |-> g1.window_width,
             window_height |-> g1.window_height,
             device_pixel_ratio |-> g1.device_pixel_ratio,
             first_frame |-> g1.first_frame]]

\* FrameInputGenerator::generate, with Instant::now() read as `now`: the
\* generator after the call and the FrameInput returned. THREE_D_EXIT is a
\* build-time variable (option_env!) and is taken as not set.
generate(g, now) ==
    LET duration     == now - g.last_time
        elapsed_time == duration
        g1 == [g EXCEPT !.accumulated_time = @ + elapsed_time, !.last_time = now]
        frame_input ==
            [events |-> g1.events,
             elapsed_time |-> elapsed_time,
             accumulated_time |-> g1.accumulated_time,
             viewport |-> g1.viewport,
             window_width |-> g1.window_width,
             window_height |-> g1.window_height,
             device_pixel_ratio |-> g1.device_pixel_ratio,
             first_frame |-> g1.first_frame]
    IN [self |-> [g1 EXCEPT !.events = << >>, !.first_frame = FALSE],
        frame_input |-> frame_input]

\* the state after FrameInputGenerator::new(size, device_pixel_ratio)
InputInitWith(sizes, scale_factors, targets) ==
    /\ \E size \in sizes, device_pixel_ratio \in scale_factors :
         gen = new(size, device_pixel_ratio, 0)
    /\ macos \in targets
    /\ emitted = << >>
    /\ delivered = << >>
    /\ frame = None
    /\ frames = 0
    /\ touched = FALSE
    /\ quiet = FALSE
    /\ panicked = FALSE

\* one call of handle_winit_window_event(event), while fewer than `limit`
\* events have been emitted
HandleWithin(event, limit) ==
    /\ ~panicked
    /\ IF event.type = "Touch" /\ event.phase = "Moved"
          /\ TouchMovePanics(gen, event.id)
       THEN /\ panicked' = TRUE
            /\ UNCHANGED << gen, macos, emitted, delivered, frame, frames,
                            touched, quiet >>
            /\ UNCHANGED << phong_vars, rect_vars >>
       ELSE LET g2     == Handled(gen, event)
                pushed == Len(g2.events) - Len(gen.events)
            IN
            /\ Len(emitted) + pushed <= limit
            /\ gen' = g2
            /\ emitted' = emitted \o SubSeq(g2.events, Len(gen.events) + 1,
                                            Len(g2.events))
            /\ touched' = TRUE
            /\ UNCHANGED << macos, delivered, frame, frames, quiet, panicked >>
    /\ UNCHANGED << phong_vars, rect_vars >>

\* one call of handle_winit_window_event(event)
Handle(event) == HandleWithin(event, MaxEmitted)

\* one call of handle_winit_window_event(event) in a touch gesture
Gesture(event) == HandleWithin(event, MaxGesture)

\* one call of handle_winit_window_event(event) on keyboard input
Type(event) == HandleWithin(event, MaxKeyEvents)

\* one call of handle_winit_window_event(event) among touches, mouse and keys
Interleave(event) == HandleWithin(event, MaxSlotEvents)

\* one call of generate, `elapsed` after the previous reading of the clock
Generate(elapsed) ==
    /\ ~panicked
    /\ frames < MaxFrames
    /\ LET r == generate(gen, gen.last_time + elapsed) IN
         /\ gen' = r.self
         /\ frame' = Some(r.frame_input)
         /\ delivered' = delivered \o r.frame_input.events
    /\ frames' = frames + 1
    /\ touched' = FALSE
    /\ quiet' = (frames >= 1 /\ ~touched)
    /\ UNCHANGED << macos, emitted, panicked >>
    /\ UNCHANGED << phong_vars, rect_vars >>

(***************************************************************************)
(* The window events the environment sends.                                *)
(***************************************************************************)
\* physical sizes (one with an odd width) and scale factors
Sizes == {<< 4, 2 >>, << 3, 2 >>}

ScaleFactors == {1, 2}

\* physical locations, each coordinate a multiple of every scale factor
Locations == {<< 0, 0 >>, << 2, 4 >>, << 4, 2 >>}

TouchIds == {1, 2, 3}

\* milliseconds between two readings of the clock
ElapsedTimes == {1}

ResizedEvents(sizes) == [type : {"Resized"}, size : sizes]

ScaleFactorChangedEvents(scale_factors, sizes) ==
    [type : {"ScaleFactorChanged"}, scale_factor : scale_factors, size : sizes]

KeyboardInputEvents(keys) ==
    [type : {"KeyboardInput"},
     virtual_keycode : {None} \cup {Some(k) : k \in keys},
     state : ElementStates]

MouseWheelEvents(deltas) == [type : {"MouseWheel"}, delta : deltas]

MouseInputEvents(buttons) ==
    [type : {"MouseInput"}, state : ElementStates, button : buttons]

CursorMovedEvents(locations) == [type : {"CursorMoved"}, location : locations]

ReceivedCharacterEvents(chars) == [type : {"ReceivedCharacter"}, ch : chars]

TouchEvents(ids, locations) ==
    [type : {"Touch"}, phase : Phases, id : ids, location : locations]

\* events the handler's `_ => ()` arm takes, such as Focused
OtherEvents == {[type |-> "Focused"]}

LineDelta(x, y) == [kind |-> "LineDelta", x |-> x, y |-> y]

PixelDelta(x, y) == [kind |-> "PixelDelta", x |-> x, y |-> y]

(***************************************************************************)
(* Specifications.                                                         *)
(***************************************************************************)
InputInit == InputInitWith(Sizes, ScaleFactors, BOOLEAN)

\* every kind of window event, and generate
InputNext ==
    \/ \E e \in ResizedEvents({<< 3, 2 >>}) : Handle(e)
    \/ \E e \in ScaleFactorChangedEvents({2}, {<< 4, 2 >>}) : Handle(e)
    \/ \E e \in KeyboardInputEvents({"A", "LControl"}) : Handle(e)
    \/ \E e \in MouseWheelEvents({LineDelta(0, 1)}) : Handle(e)
    \/ \E e \in MouseInputEvents({"Left"}) : Handle(e)
    \/ \E e \in CursorMovedEvents({<< 2, 4 >>}) : Handle(e)
    \/ \E e \in ReceivedCharacterEvents({97}) : Handle(e)
    \/ Handle([type |-> "CursorEntered"])
    \/ Handle([type |-> "CursorLeft"])
    \/ \E e \in TouchEvents({1}, {<< 0, 0 >>}) : Handle(e)
    \/ \E e \in OtherEvents : Handle(e)
    \/ \E elapsed \in ElapsedTimes : Generate(elapsed)

\* touch and pointer events
TouchNext ==
    \/ \E e \in TouchEvents(TouchIds, Locations) : Handle(e)
    \/ \E e \in CursorMovedEvents({<< 2, 4 >>}) : Handle(e)
    \/ \E e \in MouseInputEvents({"Left"}) : Handle(e)
    \/ \E e \in MouseWheelEvents({LineDelta(0, 1)}) : Handle(e)

\* touches of two fingers at two places, and the mouse cursor
GestureIds == {1, 2}

GestureLocations == {<< 0, 0 >>, << 2, 4 >>}

GestureNext ==
    \/ \E e \in TouchEvents(GestureIds, GestureLocations) : Gesture(e)
    \/ \E e \in CursorMovedEvents({<< 2, 4 >>}) : Gesture(e)

\* winit key codes: the modifier keys, left and right
ModifierKeys == {"LControl", "RControl", "LAlt", "RAlt", "LShift", "RShift",
                 "LWin", "RWin"}

\* the keys pressed: the modifier keys, two keys of the translation table
\* and a key outside it
Keys == ModifierKeys \cup {"A", "Numpad1", "F1"}

\* the characters received: a, DEL, ESC, and the first and the last
\* character of the first private-use range
Chars == {97, 127, 27, 57344, 63743}

KeysNext ==
    \/ \E e \in KeyboardInputEvents(Keys) : Type(e)
    \/ \E e \in ReceivedCharacterEvents(Chars) : Type(e)

\* scrolls: one by lines, one by physical pixels that every scale factor
\* divides
WheelDeltas == {LineDelta(1, -2), PixelDelta(4, -2)}

\* the window resized and moved between screens, the wheel and the cursor,
\* and generate
WindowNext ==
    \/ \E e \in ResizedEvents(Sizes) : Handle(e)
    \/ \E e \in ScaleFactorChangedEvents(ScaleFactors, Sizes) : Handle(e)
    \/ \E e \in MouseWheelEvents(WheelDeltas) : Handle(e)
    \/ \E e \in CursorMovedEvents({<< 2, 4 >>}) : Handle(e)
    \/ \E elapsed \in ElapsedTimes : Generate(elapsed)

\* the left and right keys of ctrl, alt and shift, and a key of the
\* translation table
HeldKeys == {"LControl", "RControl", "LAlt", "RAlt", "LShift", "RShift", "A"}

\* the modifier keys and a key, interleaved with the mouse and one touch
ModifiersNext ==
    \/ \E e \in KeyboardInputEvents(HeldKeys) : Interleave(e)
    \/ \E e \in TouchEvents({1}, {<< 2, 4 >>}) : Interleave(e)
    \/ \E e \in CursorMovedEvents({<< 0, 0 >>}) : Interleave(e)
    \/ \E e \in MouseInputEvents({"Left"}) : Interleave(e)
    \/ \E e \in MouseWheelEvents({LineDelta(0, 1)}) : Interleave(e)

\* touches of two fingers interleaved with the mouse and a modifier key
SlotsNext ==
    \/ \E e \in TouchEvents(GestureIds, GestureLocations) : Interleave(e)
    \/ \E e \in CursorMovedEvents({<< 2, 4 >>}) : Interleave(e)
    \/ \E e \in MouseInputEvents({"Left"}) : Interleave(e)
    \/ \E e \in MouseWheelEvents({LineDelta(0, 1)}) : Interleave(e)
    \/ Interleave([type |-> "CursorLeft"])
    \/ \E e \in KeyboardInputEvents({"LShift"}) : Interleave(e)

(***************************************************************************)
(* Part 3: Rectangle.  An f32 is modelled as an integer, and an angle in   *)
(* radians as a whole number of quarter turns, for which the sine and the  *)
(* cosine are whole numbers; a Vec2 is << x, y >> and a Mat3 is its three  *)
(* columns, as in cgmath.                                                  *)
(***************************************************************************)

\* cos of an angle of `turns` quarter turns
Cos(turns) == CASE turns % 4 = 0 -> 1
                [] turns % 4 = 1 -> 0
                [] turns % 4 = 2 -> -1
                [] turns % 4 = 3 -> 0

\* sin of an angle of `turns` quarter turns
Sin(turns) == CASE turns % 4 = 0 -> 0
                [] turns % 4 = 1 -> 1
                [] turns % 4 = 2 -> 0
                [] turns % 4 = 3 -> -1

\* Mat3 * Mat3: column j of the product is a applied to column j of b
Mul(a, b) ==
    [j \in 1 .. 3 |->
       [i \in 1 .. 3 |-> a[1][i] * b[j][1] + a[2][i] * b[j][2] + a[3][i] * b[j][3]]]

\* Mat3::from_translation(v)
from_translation(v) == << << 1, 0, 0 >>, << 0, 1, 0 >>, << v[1], v[2], 1 >> >>

\* Mat3::from_angle_z(theta)
from_angle_z(theta) ==
    << << Cos(theta), Sin(theta), 0 >>, << -Sin(theta), Cos(theta), 0 >>, << 0, 0, 1 >> >>

\* Mat3::from_nonuniform_scale(x, y)
from_nonuniform_scale(x, y) == << << x, 0, 0 >>, << 0, y, 0 >>, << 0, 0, 1 >> >>

\* impl Into<Radians>: an angle comes as Radians or as Degrees
Rad(turns) == [unit |-> "Rad", value |-> turns]

Deg(degrees) == [unit |-> "Deg", value |-> degrees]

\* rotation.into(): Radians are kept, Degrees are converted (90 degrees to
\* the quarter turn)
into_Radians(angle) ==
    IF angle.unit = "Rad" THEN angle.value ELSE angle.value \div 90

\* self.model.set_transformation_2d(transformation): of the model, the
\* 2D transformation the Rectangle set on it last is kept, as given
set_transformation_2d(model, transformation) ==
    [model EXCEPT !.transformation_2d = transformation]

\* Rectangle::update
update(self) ==
    [self EXCEPT !.model =
       set_transformation_2d(@,
         Mul(Mul(from_translation(self.center), from_angle_z(self.rotation)),
             from_nonuniform_scale(self.width, self.height)))]

\* Rectangle::new: Err where Model::new fails (None here), else the
\* Rectangle, updated
Rectangle_new(model_ok, center, rotation, width, height) ==
    IF ~model_ok THEN None
    ELSE Some(update([model    |-> [transformation_2d |-> << >>],
                      width    |-> width,
                      height   |-> height,
                      center   |-> center,
                      rotation |-> into_Radians(rotation)]))

\* Rectangle::set_size, were the model left as it was
set_size_Stale(self, width, height) ==
    [self EXCEPT !.width = width, !.height = height]

\* Rectangle::set_size
set_size(self, width, height) ==
    update([self EXCEPT !.width = width, !.height = height])

\* Rectangle::size
Rectangle_size(self) == << self.width, self.height >>

\* Rectangle::set_center
set_center(self, center) == update([self EXCEPT !.center = center])

\* Rectangle::center
Rectangle_center(self) == self.center

\* Rectangle::set_rotation
set_rotation(self, rotation) ==
    update([self EXCEPT !.rotation = into_Radians(rotation)])

\* Rectangle::rotation
Rectangle_rotation(self) == self.rotation

\* the widths, heights, centers and angles the setters are given
Widths == {1, 2, 3}

Heights == {1, 2}

Centers == {<< 0, 0 >>, << 2, -1 >>, << -3, 4 >>}

Angles == {Rad(0), Rad(1), Rad(3), Rad(5), Deg(90), Deg(180), Deg(-90)}

\* no Rectangle was constructed
NoRectangle == rectangle = None /\ rect_call = None

\* the state after Rectangle::new(context, center, rotation, width, height),
\* whether Model::new succeeded or not
RectangleInit ==
    /\ \E model_ok \in BOOLEAN :
         rectangle = Rectangle_new(model_ok, << 1, 1 >>, Deg(270), 4, 5)
    /\ rect_call = None

\* rectangle.set_size(width, height)
SetSize(width, height) ==
    /\ IsSome(rectangle)
    /\ rectangle' = Some(set_size(Unwrap(rectangle), width, height))
    /\ rect_call' = Some([op |-> "set_size", args |-> << width, height >>])
    /\ UNCHANGED << phong_vars, input_vars >>

\* rectangle.set_center(center)
SetCenter(center) ==
    /\ IsSome(rectangle)
    /\ rectangle' = Some(set_center(Unwrap(rectangle), center))
    /\ rect_call' = Some([op |-> "set_center", args |-> << center >>])
    /\ UNCHANGED << phong_vars, input_vars >>

\* rectangle.set_rotation(rotation)
SetRotation(rotation) ==
    /\ IsSome(rectangle)
    /\ rectangle' = Some(set_rotation(Unwrap(rectangle), rotation))
    /\ rect_call' = Some([op |-> "set_rotation", args |-> << rotation >>])
    /\ UNCHANGED << phong_vars, input_vars >>

RectangleNext ==
    \/ \E width \in Widths, height \in Heights : SetSize(width, height)
    \/ \E center \in Centers : SetCenter(center)
    \/ \E rotation \in Angles : SetRotation(rotation)

Init == PhongInit /\ InputInit /\ RectangleInit

Next == PhongNext \/ InputNext \/ RectangleNext

\* the whole program
Spec == Init /\ [][Next]_vars

InitPhong == PhongInit /\ InputInitWith({<< 4, 2 >>}, {1}, {FALSE}) /\ NoRectangle

\* PhongForwardInstancedMesh alone
SpecPhong == InitPhong /\ [][PhongNext]_vars

InitInput == PhongInit /\ InputInitWith({<< 4, 2 >>}, {1}, {FALSE}) /\ NoRectangle

\* FrameInputGenerator alone, under every kind of window event
SpecInput == InitInput /\ [][InputNext]_vars

InitTouch == PhongInit /\ InputInitWith({<< 4, 2 >>}, ScaleFactors, {FALSE}) /\ NoRectangle

\* FrameInputGenerator alone, under touch and pointer events
SpecTouch == InitTouch /\ [][TouchNext]_vars

InitGesture == PhongInit /\ InputInitWith({<< 4, 2 >>}, {1}, {FALSE}) /\ NoRectangle

\* FrameInputGenerator alone, under longer touch gestures and cursor moves
SpecGesture == InitGesture /\ [][GestureNext]_vars

InitKeys == PhongInit /\ InputInitWith({<< 4, 2 >>}, {1}, BOOLEAN) /\ NoRectangle

\* FrameInputGenerator alone, under keyboard input, on either target
SpecKeys == InitKeys /\ [][KeysNext]_vars

InitWindow == PhongInit /\ InputInitWith(Sizes, ScaleFactors, {FALSE}) /\ NoRectangle

\* FrameInputGenerator alone, under window and wheel events and generate
SpecWindow == InitWindow /\ [][WindowNext]_vars

InitModifiers == PhongInit /\ InputInitWith({<< 4, 2 >>}, {1}, BOOLEAN) /\ NoRectangle

\* FrameInputGenerator alone, under modifier keys, a key, the mouse and a
\* touch
SpecModifiers == InitModifiers /\ [][ModifiersNext]_vars

InitRectangle ==
    PhongInit /\ InputInitWith({<< 4, 2 >>}, {1}, {FALSE}) /\ RectangleInit

\* a Rectangle alone, under its setters
SpecRectangle == InitRectangle /\ [][RectangleNext]_vars

InitSlots == PhongInit /\ InputInitWith({<< 4, 2 >>}, {1}, {FALSE}) /\ NoRectangle

\* FrameInputGenerator alone, under touch, mouse and keyboard events
SpecSlots == InitSlots /\ [][SlotsNext]_vars

(***************************************************************************)
(* Claims about PhongForwardInstancedMesh, checked under SpecPhong.        *)
(***************************************************************************)
RenderOps == {"render_depth", "render_with_ambient",
              "render_with_ambient_and_directional"}

\* the static the call recorded in r resolves
CallSlot(r) == SlotOf(r.color_source, r.mode)

ColorOf(m) == m.color_source

\* the value of a program static after the step, by name
ProgramAfter(slot) ==
    CASE slot = "COLOR_AMBIENT" -> INSTANCED_PROGRAM_COLOR_AMBIENT'
      [] slot = "COLOR_AMBIENT_DIRECTIONAL" -> INSTANCED_PROGRAM_COLOR_AMBIENT_DIRECTIONAL'
      [] slot = "TEXTURE_AMBIENT" -> INSTANCED_PROGRAM_TEXTURE_AMBIENT'
      [] slot = "TEXTURE_AMBIENT_DIRECTIONAL" -> INSTANCED_PROGRAM_TEXTURE_AMBIENT_DIRECTIONAL'

\* every live object has the same color source
SameVariant == \A a, b \in Live : ColorOf(a) = ColorOf(b)

\* the object a call was made on is textured and has no uv coordinates
NoUvs(mesh) == /\ IsSome(mesh)
               /\ Unwrap(mesh).color_source = "Texture"
               /\ ~Unwrap(mesh).has_uvs

\* C1: while the live objects all use one color source, a program that is
\* cached is never compiled again (no create_program call for its static),
\* caching a program takes exactly one create_program call that succeeds,
\* dropping an object that is not the last leaves every cached program in
\* place, and dropping the last one releases them.
C1_CompiledOnceReleasedWithLast ==
    [][ SameVariant =>
          \A s \in Slots :
            /\ IsSome(Program(s)) =>
                 create_program_calls'[s] = create_program_calls[s]
            /\ (IsNone(Program(s)) /\ IsSome(ProgramAfter(s))) =>
                 /\ create_program_calls'[s] = create_program_calls[s] + 1
                 /\ ret'.op \in RenderOps
            /\ (ret'.op = "drop" /\ LiveCount > 1) =>
                 /\ ProgramAfter(s) = Program(s)
                 /\ ret'.released = {}
            /\ (ret'.op = "drop" /\ LiveCount = 1) =>
                 /\ ProgramAfter(s) = None
                 /\ Program(s) \subseteq ret'.released
      ]_vars

\* C1 witness: of two objects with the same color source one was dropped,
\* and the program compiled by the only create_program call is still cached.
C1_Witness ==
    /\ ret.op = "drop"
    /\ LiveCount = 1
    /\ \E m \in Live, s \in Slots :
         /\ ColorOf(m) = ret.color_source
         /\ SlotColor(s) = ret.color_source
         /\ Program(s) = Some(<< s, 1 >>)
         /\ TotalCalls = 1

\* C2 as claimed: a program is cached only while some live object has the
\* color source of its variant (it would be released with the last of them).
C2_ReleasedWithLastOfVariant ==
    \A s \in Slots :
      IsSome(Program(s)) => \E m \in Live : ColorOf(m) = SlotColor(s)

\* C2 amended: a drop releases programs only through the one live-instance
\* counter: if another object of any variant is still live, every static
\* keeps its program; if none is, all four are released.
C2_ReleasedWithLastOfAll ==
    [][ ret'.op = "drop" =>
          /\ \A s \in Slots :
               ProgramAfter(s) = IF Live' = {} THEN None ELSE Program(s)
          /\ ret'.released = IF Live' = {} THEN Cached ELSE {}
          /\ meshes' = [meshes EXCEPT ![Unwrap(ret'.mesh)] = @ - 1]
      ]_vars

\* C2 witness: the last object with some color source was dropped while an
\* object with the other color source lives, and its program is still cached.
C2_Witness ==
    /\ ret.op = "drop"
    /\ Live # {}
    /\ \E s \in Slots :
         /\ IsSome(Program(s))
         /\ SlotColor(s) = ret.color_source
         /\ \A m \in Live : ColorOf(m) # SlotColor(s)

\* C3: when no object is live, all four program statics are None.
C3_NoLiveNoPrograms ==
    Live = {} =>
      /\ IsNone(INSTANCED_PROGRAM_COLOR_AMBIENT)
      /\ IsNone(INSTANCED_PROGRAM_COLOR_AMBIENT_DIRECTIONAL)
      /\ IsNone(INSTANCED_PROGRAM_TEXTURE_AMBIENT)
      /\ IsNone(INSTANCED_PROGRAM_TEXTURE_AMBIENT_DIRECTIONAL)

\* C3 witness: the last drop released the programs of two distinct variants.
C3_Witness ==
    /\ ret.op = "drop"
    /\ Live = {}
    /\ Cardinality(ret.released) >= 2
    /\ Cached = {}

\* C4: new on geometry without normals returns the error, creates no
\* object, and leaves the counter, the four statics and the compile log as
\* they were.
C4_NoNormalsNoEffect ==
    [][ (ret'.op = "new" /\ ~ret'.has_normals) =>
          /\ ret'.res = "FailedToCreateMesh"
          /\ IsNone(ret'.mesh)
          /\ UNCHANGED << INSTANCED_MESH_COUNT, meshes, create_program_calls,
                          INSTANCED_PROGRAM_COLOR_AMBIENT,
                          INSTANCED_PROGRAM_COLOR_AMBIENT_DIRECTIONAL,
                          INSTANCED_PROGRAM_TEXTURE_AMBIENT,
                          INSTANCED_PROGRAM_TEXTURE_AMBIENT_DIRECTIONAL >>
      ]_vars

\* C4 witness: new failed for missing normals while an object is live and a
\* program is cached.
C4_Witness ==
    /\ ret.op = "new"
    /\ ~ret.has_normals
    /\ ret.res = "FailedToCreateMesh"
    /\ Live # {}
    /\ Cached # {}
    /\ INSTANCED_MESH_COUNT = LiveCount

\* C5: a render of a textured object without uvs returns an error and does
\* not reach the draw; a program cached before it stays cached, and the uv
\* error itself leaves the variant's program cached. Any render that finds
\* its program cached makes no create_program call and uses that program.
C5_MissingUvsKeepsProgram ==
    [][ ret'.op \in RenderOps =>
          LET s == CallSlot(ret') IN
          /\ NoUvs(ret'.mesh) =>
               /\ ret'.res # "Ok"
               /\ ~ret'.drew
               /\ IsSome(Program(s)) => ProgramAfter(s) = Program(s)
               /\ ret'.res = "FailedToCreateMesh" => IsSome(ProgramAfter(s))
          /\ IsSome(Program(s)) =>
               /\ create_program_calls' = create_program_calls
               /\ ProgramAfter(s) = Program(s)
               /\ ret'.program = Program(s)
      ]_vars

\* C5 witness: the uv error was returned, the program is cached, and another
\* live textured object with uvs can render with it.
C5_Witness ==
    /\ ret.op \in RenderOps
    /\ ret.res = "FailedToCreateMesh"
    /\ NoUvs(ret.mesh)
    /\ IsSome(Program(CallSlot(ret)))
    /\ \E m \in Live \ ret.mesh : ColorOf(m) = "Texture" /\ m.has_uvs

\* C6: a render whose create_program fails returns that error after exactly
\* one create_program call, stores nothing in any static, and leaves the
\* counter and the objects alone; a render whose program is already cached
\* never returns the compile error, and succeeds unless a binding, the uv
\* check or the draw fails.
C6_CompileErrorNoEffect ==
    [][ ret'.op \in RenderOps =>
          LET s == CallSlot(ret') IN
          /\ (IsNone(Program(s)) /\ ret'.fault = "compile") =>
               ret'.res = "CompileError"
          /\ ret'.res = "CompileError" =>
               /\ IsNone(Program(s))
               /\ ~ret'.drew
               /\ create_program_calls' =
                    [create_program_calls EXCEPT ![s] = @ + 1]
               /\ UNCHANGED << INSTANCED_MESH_COUNT, meshes,
                               INSTANCED_PROGRAM_COLOR_AMBIENT,
                               INSTANCED_PROGRAM_COLOR_AMBIENT_DIRECTIONAL,
                               INSTANCED_PROGRAM_TEXTURE_AMBIENT,
                               INSTANCED_PROGRAM_TEXTURE_AMBIENT_DIRECTIONAL >>
          /\ (IsSome(Program(s)) /\ ret'.fault = "none" /\ ~NoUvs(ret'.mesh)) =>
               /\ ret'.res = "Ok"
               /\ ret'.drew
      ]_vars

\* C6 witness: a compile error was returned while the program of another
\* variant is cached.
C6_Witness ==
    /\ ret.op \in RenderOps
    /\ ret.res = "CompileError"
    /\ create_program_calls[CallSlot(ret)] = 1
    /\ IsNone(Program(CallSlot(ret)))
    /\ Cached # {}

\* the lighting a program is built for: depth-only renders take the ambient one
C7_Lighting(mode) == IF mode = "DepthOnly" THEN "Ambient" ELSE mode

\* the static that holds the program for a color source and a lighting
C7_Static(k) ==
    CASE k[1] = "Color" /\ C7_Lighting(k[2]) = "Ambient" ->
           INSTANCED_PROGRAM_COLOR_AMBIENT
      [] k[1] = "Color" /\ C7_Lighting(k[2]) = "AmbientDirectional" ->
           INSTANCED_PROGRAM_COLOR_AMBIENT_DIRECTIONAL
      [] k[1] = "Texture" /\ C7_Lighting(k[2]) = "Ambient" ->
           INSTANCED_PROGRAM_TEXTURE_AMBIENT
      [] k[1] = "Texture" /\ C7_Lighting(k[2]) = "AmbientDirectional" ->
           INSTANCED_PROGRAM_TEXTURE_AMBIENT_DIRECTIONAL

\* the request of the latest call and the one right before it, when both
\* resolved a program
C7_Pairs ==
    IF IsSome(ret.before) /\ IsSome(ret.program)
    THEN {<< Unwrap(ret.before), Unwrap(Resolved(ret)) >>}
    ELSE {}

\* C7 as claimed: two requests resolved the same program iff their
\* (color source, lighting mode) keys are identical.
C7_SameProgramIffSameKey ==
    \A pair \in C7_Pairs :
      LET r1 == pair[1]
          r2 == pair[2]
      IN r1[3] = r2[3] <=> (r1[1] = r2[1] /\ r1[2] = r2[2])

\* C7 amended: a request resolves the static of its color source and of its
\* lighting, where render_depth takes the Ambient program; two requests
\* resolved the same program iff they have the same color source and,
\* with DepthOnly counted as Ambient, the same lighting.
C7_SameProgramIffSameStatic ==
    /\ IsSome(ret.program) =>
         ret.program = C7_Static(<< ret.color_source, ret.mode >>)
    /\ \A pair \in C7_Pairs :
         LET r1 == pair[1]
             r2 == pair[2]
         IN r1[3] = r2[3] <=>
              (r1[1] = r2[1] /\ C7_Lighting(r1[2]) = C7_Lighting(r2[2]))

\* C7 witness: a depth render and then an ambient render of colored objects
\* resolved one program, while the directional static holds another.
C7_Witness ==
    /\ ret.op = "render_with_ambient"
    /\ ret.color_source = "Color"
    /\ IsSome(ret.program)
    /\ IsSome(ret.before)
    /\ Unwrap(ret.before) = << "Color", "DepthOnly", Unwrap(ret.program) >>
    /\ IsSome(INSTANCED_PROGRAM_COLOR_AMBIENT_DIRECTIONAL)
    /\ INSTANCED_PROGRAM_COLOR_AMBIENT_DIRECTIONAL # ret.program


(***************************************************************************)
(* Claims about FrameInputGenerator: the event queue and the frames.       *)
(***************************************************************************)
\* the last Len(suffix) elements of seq are suffix
EndsWith(seq, suffix) ==
    /\ Len(suffix) <= Len(seq)
    /\ SubSeq(seq, Len(seq) - Len(suffix) + 1, Len(seq)) = suffix

\* C8: under any interleaving of handle_winit_window_event and generate, the
\* events of all snapshots returned so far, in order, followed by the pending
\* queue, are the events emitted so far in emission order; the latest
\* snapshot holds the newest delivered events, and the queue is empty right
\* after a generate.
C8_EveryEventInOneSnapshot ==
    /\ delivered \o gen.events = emitted
    /\ IsSome(frame) => EndsWith(delivered, Unwrap(frame).events)
    /\ (frames >= 1 /\ ~touched) => gen.events = << >>

\* two snapshots were returned, each with one event, in emission order
C8_Witness ==
    /\ frames = 2
    /\ Len(emitted) = 2
    /\ emitted[1] # emitted[2]
    /\ delivered = emitted
    /\ Unwrap(frame).events = << emitted[2] >>
    /\ gen.events = << >>

\* C9: the FrameInput of the first generate call has first_frame true, that of
\* every later call has it false, whatever was handled in between; and a
\* generate call with no window event handled since the previous generate
\* returns an empty event sequence.
C9_FirstFrameOnceAndQuietFrameEmpty ==
    [][frames' = frames + 1 =>
         /\ IsSome(frame')
         /\ Unwrap(frame').first_frame = (frames = 0)
         /\ (frames >= 1 /\ ~touched) => Unwrap(frame').events = << >>]_vars

\* a first frame that delivered an event was followed, with nothing handled
\* in between, by a second generate: no events, first_frame false
C9_Witness ==
    /\ frames = 2
    /\ quiet
    /\ Len(delivered) >= 1
    /\ Unwrap(frame).events = << >>
    /\ ~Unwrap(frame).first_frame

(***************************************************************************)
(* Claims about FrameInputGenerator: touches.                              *)
(***************************************************************************)
\* the position a touch event carries, as the handler computes it
TouchPosition(event) == LogicalPoint(gen, event.location)

\* a Touch-Start handled with both touch slots empty appends one
\* MousePress(Left) at the start position and takes the primary slot
C10_Start ==
    \A event \in TouchEvents(TouchIds, Locations) :
      ( /\ event.phase = "Started"
        /\ IsNone(gen.finger_id)
        /\ IsNone(gen.secondary_finger_id)
        /\ Handle(event) )
      => /\ emitted' = emitted \o
              << MousePress("Left", TouchPosition(event), gen.modifiers) >>
         /\ gen'.finger_id = Some(event.id)
         /\ gen'.cursor_pos = Some(TouchPosition(event))
         /\ IsNone(gen'.secondary_finger_id)

\* a Touch-Move of the identifier in the primary slot, the secondary slot
\* empty, appends one MouseMotion: its delta is the new position less the
\* position the slot held, which right after the Touch-Start is the start
\* position
C10_Move ==
    \A event \in TouchEvents(TouchIds, Locations) :
      ( /\ event.phase = "Moved"
        /\ gen.finger_id = Some(event.id)
        /\ IsNone(gen.secondary_finger_id)
        /\ IsSome(gen.cursor_pos)
        /\ Handle(event) )
      => LET start    == Unwrap(gen.cursor_pos)
             position == TouchPosition(event)
         IN /\ emitted' = emitted \o
                 << MouseMotion(Some("Left"),
                                << position.x - start.x, position.y - start.y >>,
                                position, gen.modifiers) >>
            /\ gen'.finger_id = Some(event.id)
            /\ gen'.cursor_pos = Some(position)
            /\ IsNone(gen'.secondary_finger_id)

\* C10: starting with both touch slots empty, a Touch-Start followed by a
\* Touch-Move with the same identifier appends exactly one MousePress(Left) at
\* the start position, then exactly one MouseMotion whose delta is the new
\* position less the start position per axis, and nothing else; the touch
\* holds the primary slot.
C10_StartThenMove == [][C10_Start /\ C10_Move]_vars

\* a touch started at one place and moved to another: the events emitted are
\* a press at the start and a motion to the new position, with a delta that
\* is their difference and is not zero
C10_Witness ==
    /\ IsSome(gen.finger_id)
    /\ IsNone(gen.secondary_finger_id)
    /\ Len(emitted) = 2
    /\ emitted[1].type = "MousePress"
    /\ emitted[1].button = "Left"
    /\ emitted[2].type = "MouseMotion"
    /\ gen.cursor_pos = Some(emitted[2].position)
    /\ emitted[2].delta = << emitted[2].position.x - emitted[1].position.x,
                             emitted[2].position.y - emitted[1].position.y >>
    /\ emitted[2].delta[1] # 0
    /\ emitted[2].delta[2] # 0

(***************************************************************************)
(* Claims about FrameInputGenerator: two touches.                          *)
(***************************************************************************)
\* both touch slots hold an identifier
BothSlots(g) == IsSome(g.finger_id) /\ IsSome(g.secondary_finger_id)

C12_WheelOnlyOfTwoTouches ==
    [][\A event \in TouchEvents(GestureIds, GestureLocations) :
         (event.phase = "Moved" /\ Gesture(event))
         => /\ ( /\ emitted' # emitted
                 /\ emitted'[Len(emitted')].type = "MouseWheel" )
               => BothSlots(gen)
            /\ ( /\ IsNone(gen.finger_id)
                 /\ gen.secondary_finger_id = Some(event.id) )
               => emitted' = emitted]_vars

\* the primary touch was lifted, the mouse cursor moved, and a move of the
\* touch left in the secondary slot pushed a wheel event measured against
\* the mouse cursor
C12_Witness ==
    /\ IsNone(gen.finger_id)
    /\ IsSome(gen.secondary_finger_id)
    /\ Len(emitted) = 4
    /\ emitted[2].type = "MouseRelease"
    /\ emitted[3].type = "MouseMotion"
    /\ emitted[3].button = None
    /\ emitted[4].type = "MouseWheel"
    /\ emitted[4].position = emitted[3].position

\* a Touch-End or Touch-Cancel of the identifier in the primary slot appends
\* one MouseRelease(Left) and empties the slot; the secondary slot keeps its
\* identifier and position
C13_Lift ==
    \A event \in TouchEvents(GestureIds, GestureLocations) :
      ( /\ event.phase \in {"Ended", "Cancelled"}
        /\ gen.finger_id = Some(event.id)
        /\ Gesture(event) )
      => /\ emitted' = emitted \o
              << MouseRelease("Left", TouchPosition(event), gen.modifiers) >>
         /\ IsNone(gen'.finger_id)
         /\ IsNone(gen'.cursor_pos)
         /\ gen'.secondary_finger_id = gen.secondary_finger_id
         /\ gen'.secondary_cursor_pos = gen.secondary_cursor_pos

\* with the primary slot empty and a touch in the secondary slot, a
\* Touch-Start of another identifier appends one MousePress(Left) and takes
\* the primary slot; the secondary slot keeps its identifier and position
C13_NextStart ==
    \A event \in TouchEvents(GestureIds, GestureLocations) :
      ( /\ event.phase = "Started"
        /\ IsNone(gen.finger_id)
        /\ IsSome(gen.secondary_finger_id)
        /\ gen.secondary_finger_id # Some(event.id)
        /\ Gesture(event) )
      => /\ emitted' = emitted \o
              << MousePress("Left", TouchPosition(event), gen.modifiers) >>
         /\ gen'.finger_id = Some(event.id)
         /\ gen'.cursor_pos = Some(TouchPosition(event))
         /\ gen'.secondary_finger_id = gen.secondary_finger_id
         /\ gen'.secondary_cursor_pos = gen.secondary_cursor_pos

\* C13: a Touch-End or Touch-Cancel whose identifier matches the primary slot
\* appends exactly one MouseRelease(Left) and empties the primary slot; a
\* touch in the secondary slot stays there with its identifier and position
\* (it is not promoted), so that the next Touch-Start of a new identifier
\* takes the primary slot and appends a MousePress(Left).
C13_LiftDoesNotPromote == [][C13_Lift /\ C13_NextStart]_vars

\* a press, the release of the lifted primary touch and the press of a new
\* primary touch were emitted; the two slots hold different identifiers
C13_Witness ==
    /\ BothSlots(gen)
    /\ gen.finger_id # gen.secondary_finger_id
    /\ Len(emitted) = 3
    /\ emitted[1].type = "MousePress"
    /\ emitted[2].type = "MouseRelease"
    /\ emitted[3].type = "MousePress"
    /\ emitted[3].position = Unwrap(gen.cursor_pos)
    /\ emitted[3].position # Unwrap(gen.secondary_cursor_pos)

\* a Touch-Start with the primary slot occupied and the secondary slot empty
\* takes the secondary slot, appends nothing and leaves the primary slot
C14_Fill ==
    (IsSome(gen.finger_id) /\ IsNone(gen.secondary_finger_id))
    => \A event \in [type : {"Touch"}, phase : {"Started"}, id : TouchIds,
                     location : Locations] :
      Handle(event)
      => /\ emitted' = emitted
         /\ gen'.events = gen.events
         /\ gen'.secondary_finger_id = Some(event.id)
         /\ gen'.secondary_cursor_pos = Some(TouchPosition(event))
         /\ gen'.finger_id = gen.finger_id
         /\ gen'.cursor_pos = gen.cursor_pos

\* a Touch-End or Touch-Cancel of the identifier in the secondary slot, which
\* is not the one in the primary slot, empties the secondary slot, appends
\* nothing and leaves the primary slot
C14_Clear ==
    \A event \in [type : {"Touch"}, phase : {"Ended", "Cancelled"},
                  id : gen.secondary_finger_id \ gen.finger_id,
                  location : Locations] :
      Handle(event)
      => /\ emitted' = emitted
         /\ gen'.events = gen.events
         /\ IsNone(gen'.secondary_finger_id)
         /\ IsNone(gen'.secondary_cursor_pos)
         /\ gen'.finger_id = gen.finger_id
         /\ gen'.cursor_pos = gen.cursor_pos

\* C14: the secondary touch slot is assigned and cleared silently: a
\* Touch-Start that fills the empty secondary slot while the primary is
\* occupied, and a Touch-End or Touch-Cancel of the touch in the secondary
\* slot, each append no event to the queue and leave the primary slot's
\* identifier and position unchanged.
C14_SecondarySilent == [][C14_Fill /\ C14_Clear]_vars

\* a second touch went down at another place than the first: it holds the
\* secondary slot, and the press of the first touch is the only event
C14_Witness ==
    /\ BothSlots(gen)
    /\ gen.finger_id # gen.secondary_finger_id
    /\ gen.cursor_pos # gen.secondary_cursor_pos
    /\ Len(emitted) = 1
    /\ emitted[1] = MousePress("Left", Unwrap(gen.cursor_pos), NoModifiers)
    /\ gen.events = emitted

\* the touch events of the identifiers that are in neither slot of g
ThirdTouchEvents(g) ==
    TouchEvents(TouchIds \ (g.finger_id \cup g.secondary_finger_id), Locations)

\* C15: at most two concurrent touches are tracked: in every reachable
\* state with both slots occupied, the handler, given a Touch-Start,
\* Touch-Move, Touch-End or Touch-Cancel whose identifier matches neither
\* slot, does not panic and returns the generator as it was: no event
\* appended, both slots (identifiers and positions) and the rest unchanged.
C15_ThirdTouchIgnored ==
    BothSlots(gen)
    => \A event \in ThirdTouchEvents(gen) :
         /\ ~TouchMovePanics(gen, event.id)
         /\ Handled(gen, event) = gen

\* two touches hold the two slots, after a press and a wheel event, and
\* events of a third identifier, of every phase, can be handled
C15_Witness ==
    /\ BothSlots(gen)
    /\ gen.finger_id # gen.secondary_finger_id
    /\ Len(emitted) = 2
    /\ emitted[2].type = "MouseWheel"
    /\ ThirdTouchEvents(gen) # {}
    /\ {event.phase : event \in ThirdTouchEvents(gen)} = Phases
    /\ \E event \in ThirdTouchEvents(gen) : ENABLED Handle(event)

(***************************************************************************)
(* Claims about FrameInputGenerator: the keyboard.                         *)
(***************************************************************************)
\* ASCII control characters: U+0000 to U+001F, and U+007F
AsciiControl(ch) == (0 <= ch /\ ch <= 31) \/ ch = 127

\* the Unicode private-use ranges: U+E000 to U+F8FF and planes 15 and 16
PrivateUse(ch) ==
    \/ ch \in 57344 .. 63743
    \/ (983040 <= ch /\ ch <= 1048573)
    \/ (1048576 <= ch /\ ch <= 1114109)

\* C16: after any sequence of keyboard events, a ReceivedCharacter appends
\* one Text event holding the character if the character is printable (no
\* ASCII control character, not in a private-use range) and neither the ctrl
\* nor the command flag of the modifiers is set, and appends nothing
\* otherwise; so a printable character received while the ctrl flag is set
\* appends no Text event.
C16_TextIffPrintableUnmodified ==
    [][\A event \in ReceivedCharacterEvents(Chars) :
         Type(event)
         => /\ gen'.events = emitted'
            /\ IF /\ ~AsciiControl(event.ch)
                  /\ ~PrivateUse(event.ch)
                  /\ ~gen.modifiers.ctrl
                  /\ ~gen.modifiers.command
               THEN emitted' = Append(emitted, Text(event.ch))
               ELSE emitted' = emitted
            /\ gen'.modifiers = gen.modifiers]_vars

\* an `a` was received and became a Text event, then Ctrl went down: an `a`
\* received now leaves the queue as it is
C16_Witness ==
    /\ Len(emitted) = 2
    /\ emitted[1] = Text(97)
    /\ emitted[2].type = "ModifiersChange"
    /\ emitted[2].modifiers.ctrl
    /\ gen.modifiers.ctrl
    /\ gen.events = emitted
    /\ Handled(gen, [type |-> "ReceivedCharacter", ch |-> 97]) = gen

\* the KeyboardInput event of a key going down or up
KeyEvent(key, state) ==
    [type |-> "KeyboardInput", virtual_keycode |-> Some(key), state |-> state]

\* the modifier flag a modifier key stands for
FlagOf(key) ==
    CASE key \in {"LControl", "RControl"} -> "ctrl"
      [] key \in {"LAlt", "RAlt"} -> "alt"
      [] key \in {"LShift", "RShift"} -> "shift"
      [] key \in {"LWin", "RWin"} -> "command"

\* the keys of Keys that the translation table knows, with their crate::Key
RecognizedKeys == [A |-> "A", Numpad1 |-> "Num1"]

\* an event of a modifier key among `keys` sets the key's flag to "pressed",
\* leaves the flags of the other modifiers among ctrl, alt and shift, and
\* appends one ModifiersChange carrying the modifiers as updated
C17_Modifier(keys) ==
    \A key \in keys, state \in ElementStates :
      Type(KeyEvent(key, state))
      => /\ gen'.modifiers[FlagOf(key)] = (state = "Pressed")
         /\ \A flag \in {"ctrl", "alt", "shift"} \ {FlagOf(key)} :
              gen'.modifiers[flag] = gen.modifiers[flag]
         /\ emitted' = Append(emitted, ModifiersChange(gen'.modifiers))
         /\ gen'.events = emitted'

\* an event of a key of the translation table appends one KeyPress or
\* KeyRelease of the translated key carrying the current modifiers, which
\* it leaves
C17_Key ==
    \A key \in DOMAIN RecognizedKeys, state \in ElementStates :
      Type(KeyEvent(key, state))
      => /\ emitted' =
              Append(emitted,
                     IF state = "Pressed"
                     THEN KeyPress(RecognizedKeys[key], gen.modifiers)
                     ELSE KeyRelease(RecognizedKeys[key], gen.modifiers))
         /\ gen'.events = emitted'
         /\ gen'.modifiers = gen.modifiers

\* an event of a key among `keys`, or of no key code, appends nothing and
\* leaves the generator
C17_NoKey(keys) ==
    \A event \in {KeyEvent(key, state) : key \in keys, state \in ElementStates}
                 \cup KeyboardInputEvents({}) :
      Type(event) => emitted' = emitted /\ gen' = gen

\* the statement of C17 with LWin and RWin modifier keys on every target
C17_EveryModifierKeyAnnounced ==
    [][/\ C17_Modifier(ModifierKeys)
       /\ C17_Key
       /\ C17_NoKey(Keys \ (ModifierKeys \cup DOMAIN RecognizedKeys))]_vars

\* the modifier keys of the target: LWin and RWin on macOS only
TargetModifierKeys ==
    IF macos THEN ModifierKeys ELSE ModifierKeys \ {"LWin", "RWin"}

\* C17: every keyboard event for a modifier key (ctrl, alt, shift, left or
\* right, and on Apple targets the platform meta key) updates the modifiers
\* and appends exactly one ModifiersChange carrying the updated state and no
\* KeyPress/KeyRelease; every other recognized key appends exactly one
\* KeyPress (pressed) or KeyRelease (released) carrying the current modifiers
\* and leaves the modifiers; any other key, the platform meta key on other
\* targets among them, appends no event and changes nothing.
C17_ModifierKeysOfTheTarget ==
    [][/\ C17_Modifier(TargetModifierKeys)
       /\ C17_Key
       /\ C17_NoKey(Keys \ (TargetModifierKeys \cup DOMAIN RecognizedKeys))]_vars

\* not on macOS: Shift went down, then A, then Ctrl, each announced by its
\* event, and a press of LWin now changes nothing
C17_Witness ==
    /\ ~macos
    /\ Len(emitted) = 3
    /\ emitted[1] = ModifiersChange([NoModifiers EXCEPT !.shift = TRUE])
    /\ emitted[2] = KeyPress("A", [NoModifiers EXCEPT !.shift = TRUE])
    /\ emitted[3] = ModifiersChange(gen.modifiers)
    /\ gen.modifiers.ctrl /\ gen.modifiers.shift /\ ~gen.modifiers.alt
    /\ Handled(gen, KeyEvent("LWin", "Pressed")) = gen

\* the events of the keyboard specification that are events of the keys
\* `keys`
EventsOfKeys(keys) ==
    {KeyEvent(key, state) : key \in keys, state \in ElementStates}

\* what a step does to the command flag, by the event handled: not on macOS
\* a Ctrl key event sets ctrl and command to "pressed" and no other event
\* changes command; on macOS a Ctrl key event leaves command, an LWin or
\* RWin event sets it to "pressed", and no other event changes it
C18_Step ==
    \A event \in KeyboardInputEvents(Keys) \cup ReceivedCharacterEvents(Chars) :
      Type(event)
      => LET pressed == event.state = "Pressed"
             Is(keys) == event \in EventsOfKeys(keys)
         IN IF Is({"LControl", "RControl"})
            THEN /\ gen'.modifiers.ctrl = pressed
                 /\ gen'.modifiers.command =
                      (IF macos THEN gen.modifiers.command ELSE pressed)
            ELSE IF macos /\ Is({"LWin", "RWin"})
            THEN gen'.modifiers.command = pressed
            ELSE gen'.modifiers.command = gen.modifiers.command

\* C18: on non-Apple targets the command flag equals the ctrl flag in every
\* reachable state (a Ctrl key event sets both, and no other key changes
\* command); on Apple targets a Ctrl key event never changes command, and
\* only the platform meta key (LWin, RWin) sets or clears it.
C18_CommandFollowsCtrlOrMeta ==
    /\ [](~macos => gen.modifiers.command = gen.modifiers.ctrl)
    /\ [][C18_Step]_vars

\* on macOS: Ctrl went down, then the meta key went down and up; the ctrl
\* flag is set and the command flag, set in between, is clear
C18_Witness ==
    /\ macos
    /\ Len(emitted) = 3
    /\ emitted[1] = ModifiersChange([NoModifiers EXCEPT !.ctrl = TRUE])
    /\ emitted[2] = ModifiersChange([NoModifiers EXCEPT !.ctrl = TRUE,
                                                        !.command = TRUE])
    /\ emitted[3] = ModifiersChange([NoModifiers EXCEPT !.ctrl = TRUE])
    /\ gen.modifiers = [NoModifiers EXCEPT !.ctrl = TRUE]

(***************************************************************************)
(* Claims about FrameInputGenerator: the wheel and the window.             *)
(***************************************************************************)
\* the step appends exactly one MouseWheel event, whose delta is 24 per
\* line of a line delta, and the pixel delta divided by the device pixel
\* ratio
C19_OneWheel(event) ==
    LET wheel == emitted'[Len(emitted')] IN
    /\ Len(emitted') = Len(emitted) + 1
    /\ SubSeq(emitted', 1, Len(emitted)) = emitted
    /\ gen'.events = Append(gen.events, wheel)
    /\ wheel.type = "MouseWheel"
    /\ IF event.delta.kind = "LineDelta"
       THEN wheel.delta = << 24 * event.delta.x, 24 * event.delta.y >>
       ELSE /\ wheel.delta[1] * gen.device_pixel_ratio = event.delta.x
            /\ wheel.delta[2] * gen.device_pixel_ratio = event.delta.y

\* the statement of C19 for every raw mouse-wheel event
C19_EveryWheelEventAppends ==
    [][\A event \in MouseWheelEvents(WheelDeltas) :
         Handle(event) => C19_OneWheel(event)]_vars

\* C19: a raw mouse-wheel event handled while a cursor position is stored
\* appends exactly one MouseWheel event: a line-delta scroll of (x, y) lines
\* yields delta (24*x, 24*y), and a pixel-delta scroll yields the delta
\* divided by the current device pixel ratio; handled while no cursor
\* position is stored it appends nothing and changes nothing.
C19_WheelAtKnownCursor ==
    [][\A event \in MouseWheelEvents(WheelDeltas) :
         Handle(event)
         => IF IsSome(gen.cursor_pos)
            THEN C19_OneWheel(event) /\ gen'.cursor_pos = gen.cursor_pos
            ELSE emitted' = emitted /\ gen' = gen]_vars

\* at device pixel ratio 2 the cursor moved and the wheel turned by (4, -2)
\* physical pixels: the wheel event has delta (2, -1) and the cursor's
\* position
C19_Witness ==
    /\ gen.device_pixel_ratio = 2
    /\ Len(emitted) = 2
    /\ emitted[1].type = "MouseMotion"
    /\ emitted[2].type = "MouseWheel"
    /\ emitted[2].delta = << 2, -1 >>
    /\ emitted[2].position = emitted[1].position
    /\ emitted[2].position.device_pixel_ratio = 2

\* `logical` is physical / ratio as a whole number: the nearest one
NearestQuotient(logical, physical, ratio) ==
    2 * Abs(logical * ratio - physical) <= ratio

\* the generator's viewport, logical window size and device pixel ratio
WindowOf(g) ==
    << g.viewport, g.window_width, g.window_height, g.device_pixel_ratio >>

\* a Resized or ScaleFactorChanged event appends nothing and changes only
\* the viewport, which becomes the event's physical size at the origin, the
\* logical size, which becomes that size divided by the device pixel ratio,
\* and, for ScaleFactorChanged, the device pixel ratio, which becomes the
\* event's scale factor
C20_Resize ==
    \A event \in ResizedEvents(Sizes)
                 \cup ScaleFactorChangedEvents(ScaleFactors, Sizes) :
      Handle(event)
      => LET ratio == IF event.type = "ScaleFactorChanged"
                      THEN event.scale_factor
                      ELSE gen.device_pixel_ratio
         IN /\ emitted' = emitted
            /\ gen'.viewport = [x |-> 0, y |-> 0, width |-> event.size[1],
                                height |-> event.size[2]]
            /\ gen'.device_pixel_ratio = ratio
            /\ NearestQuotient(gen'.window_width, event.size[1], ratio)
            /\ NearestQuotient(gen'.window_height, event.size[2], ratio)
            /\ gen' = [gen EXCEPT !.viewport = gen'.viewport,
                                  !.window_width = gen'.window_width,
                                  !.window_height = gen'.window_height,
                                  !.device_pixel_ratio = ratio]

\* no other event changes the viewport, the logical size or the ratio
C20_Keep ==
    \A event \in MouseWheelEvents(WheelDeltas) \cup CursorMovedEvents({<< 2, 4 >>}) :
      Handle(event) => WindowOf(gen') = WindowOf(gen)

\* generate stamps the FrameInput with the generator's viewport, logical
\* size and ratio, and leaves them in the generator
C20_Stamp ==
    frames' = frames + 1
    => /\ IsSome(frame')
       /\ WindowOf(Unwrap(frame')) = WindowOf(gen)
       /\ WindowOf(gen') = WindowOf(gen)

\* C20: a Resized or ScaleFactorChanged event appends no event to the queue
\* and changes only the viewport, the logical window size and (for
\* ScaleFactorChanged) the device pixel ratio; the values stamped on the next
\* FrameInput are those of the most recent such event, the logical size
\* being the physical size divided by the device pixel ratio, to the nearest
\* whole number.
C20_ResizeStampsNextFrame == [][C20_Resize /\ C20_Keep /\ C20_Stamp]_vars

\* the cursor moved at device pixel ratio 1, the window then moved to a
\* screen of ratio 2 with an odd physical width, and the frame generated
\* next is stamped with ratio 2, the new viewport and the logical size 2 x 1
C20_Witness ==
    /\ IsSome(gen.cursor_pos)
    /\ Unwrap(gen.cursor_pos).device_pixel_ratio = 1
    /\ IsSome(frame)
    /\ ~touched
    /\ Unwrap(frame).device_pixel_ratio = 2
    /\ Unwrap(frame).viewport = new_at_origo(3, 2)
    /\ Unwrap(frame).window_width = 2
    /\ Unwrap(frame).window_height = 1
    /\ Unwrap(frame).events = emitted
    /\ Len(emitted) = 1

(***************************************************************************)
(* Claims about FrameInputGenerator: who writes which field.               *)
(***************************************************************************)
\* the window and input fields of the generator: viewport, logical size,
\* device pixel ratio, the two touch slots, modifiers, pressed mouse button
InputOf(g) ==
    << g.viewport, g.window_width, g.window_height, g.device_pixel_ratio,
       g.cursor_pos, g.finger_id, g.secondary_cursor_pos,
       g.secondary_finger_id, g.modifiers, g.mouse_pressed >>

\* the clock fields of the generator: last timestamp and accumulated time
ClockOf(g) == << g.last_time, g.accumulated_time >>

\* the statement of C21: a generate call leaves the clock fields and the
\* window and input fields all unchanged
C21_GenerateOnlyReads ==
    [][frames' = frames + 1
       => ClockOf(gen') = ClockOf(gen) /\ InputOf(gen') = InputOf(gen)]_vars

\* C21: the window and input fields (viewport, logical size, device pixel
\* ratio, primary and secondary pointer identity and position, modifier
\* flags, pressed mouse button) are left unchanged by generate, which only
\* reads them, and are written by handle_winit_window_event alone; the last
\* timestamp and the accumulated time are written by generate alone, which
\* advances the accumulated time by the time elapsed since the last
\* timestamp and moves the timestamp to now.
C21_GenerateWritesClockOnly ==
    [][/\ frames' = frames + 1
          => /\ InputOf(gen') = InputOf(gen)
             /\ gen'.last_time \in {gen.last_time + elapsed : elapsed \in ElapsedTimes}
             /\ gen'.accumulated_time =
                  gen.accumulated_time + (gen'.last_time - gen.last_time)
       /\ frames' = frames => ClockOf(gen') = ClockOf(gen)]_vars

\* a frame was generated after the cursor moved and a button went down: the
\* generator still holds the cursor position and the button, its queue is
\* empty and its clock moved by the time elapsed
C21_Witness ==
    /\ frames = 1
    /\ ~touched
    /\ gen.events = << >>
    /\ IsSome(gen.cursor_pos)
    /\ IsSome(gen.mouse_pressed)
    /\ Len(delivered) = 2
    /\ gen.last_time = 1
    /\ gen.accumulated_time = 1

(***************************************************************************)
(* Claims about PhongForwardInstancedMesh: the counter.                    *)
(***************************************************************************)
\* what a step does to the counter, by the call made: a construction that
\* succeeds adds one, one that fails (no normals, or InstancedMesh::new in
\* error) adds nothing, a drop finds the counter above zero and takes one
\* off, a render leaves it
C22_Step ==
    /\ (ret'.op = "new" /\ ret'.res = "Ok") =>
         /\ IsSome(ret'.mesh)
         /\ INSTANCED_MESH_COUNT' = INSTANCED_MESH_COUNT + 1
    /\ (ret'.op = "new" /\ ret'.res # "Ok") =>
         /\ IsNone(ret'.mesh)
         /\ INSTANCED_MESH_COUNT' = INSTANCED_MESH_COUNT
    /\ ret'.op = "drop" =>
         /\ INSTANCED_MESH_COUNT >= 1
         /\ INSTANCED_MESH_COUNT' = INSTANCED_MESH_COUNT - 1
    /\ ret'.op \in RenderOps => INSTANCED_MESH_COUNT' = INSTANCED_MESH_COUNT

\* C22: in every reachable state INSTANCED_MESH_COUNT is the number of live
\* PhongForwardInstancedMesh values and is not below zero; it is incremented
\* exactly once per successful construction, not at all on a failed one
\* (missing normals or InstancedMesh::new error), and decremented exactly
\* once per drop.
C22_CountIsLive ==
    /\ [](INSTANCED_MESH_COUNT = LiveCount /\ INSTANCED_MESH_COUNT >= 0)
    /\ [][C22_Step]_vars

\* of two objects constructed one was dropped, after a render compiled a
\* program: one object is live and the counter is one
C22_Witness ==
    /\ ret.op = "drop"
    /\ LiveCount = 1
    /\ INSTANCED_MESH_COUNT = 1
    /\ TotalCalls >= 1
    /\ Cached # {}

(***************************************************************************)
(* Claims about FrameInputGenerator: the touch slots among other events.   *)
(***************************************************************************)
\* an occupied slot has a stored position
SlotsStored(g) ==
    /\ IsSome(g.finger_id) => IsSome(g.cursor_pos)
    /\ IsSome(g.secondary_finger_id) => IsSome(g.secondary_cursor_pos)

\* the two slots, when both occupied, hold different identifiers
DistinctIds(g) == BothSlots(g) => g.finger_id # g.secondary_finger_id

\* the window events of the interleaving, less the Touch-Starts of an
\* identifier that a slot of g holds (such a touch is still active)
EventsButRestarts(g) ==
    {e \in TouchEvents(GestureIds, GestureLocations) :
       ~(e.phase = "Started" /\ e.id \in g.finger_id \cup g.secondary_finger_id)}
    \cup CursorMovedEvents({<< 2, 4 >>})
    \cup MouseInputEvents({"Left"})
    \cup MouseWheelEvents({LineDelta(0, 1)})
    \cup {[type |-> "CursorLeft"]}
    \cup KeyboardInputEvents({"LShift"})

\* C23: in every state reachable by touch, mouse and keyboard events in any
\* order, an occupied primary slot has a stored cursor position and an
\* occupied secondary slot a stored secondary position, so that no
\* Touch-Move reaches an unwrap of None and the handler has not panicked;
\* and no step other than a Touch-Start of an identifier still held in a
\* slot takes the slots from different identifiers to equal ones, so that
\* the identifiers differ whenever both slots are occupied, provided no
\* identifier is started again while it is active.
C23_SlotsStoredAndDistinct ==
    /\ [](/\ SlotsStored(gen)
          /\ ~panicked
          /\ \A id \in GestureIds : ~TouchMovePanics(gen, id))
    /\ [][(DistinctIds(gen) /\ ~DistinctIds(gen'))
          => \A event \in EventsButRestarts(gen) : ~Interleave(event)]_vars

\* Shift went down, the cursor moved, a touch went down where the cursor
\* is not, and a second touch of another identifier took the secondary slot
C23_Witness ==
    /\ BothSlots(gen)
    /\ gen.finger_id # gen.secondary_finger_id
    /\ Len(emitted) = 3
    /\ emitted[1].type = "ModifiersChange"
    /\ emitted[2].type = "MouseMotion"
    /\ emitted[3].type = "MousePress"
    /\ emitted[3].modifiers.shift
    /\ emitted[3].position # emitted[2].position
    /\ gen.cursor_pos = Some(emitted[3].position)
    /\ gen.secondary_cursor_pos = Some(emitted[2].position)

(***************************************************************************)
(* Claims about FrameInputGenerator: the modifier flags and who carries    *)
(* them.                                                                   *)
(***************************************************************************)
\* the flags with a left and a right key each
PairedFlags == {"ctrl", "alt", "shift"}

\* the left and the right key of a flag
KeysOfFlag(flag) ==
    CASE flag = "ctrl" -> {"LControl", "RControl"}
      [] flag = "alt" -> {"LAlt", "RAlt"}
      [] flag = "shift" -> {"LShift", "RShift"}

\* the window events of the modifier specification
ModifierSpecEvents ==
    KeyboardInputEvents(HeldKeys)
    \cup TouchEvents({1}, {<< 2, 4 >>})
    \cup CursorMovedEvents({<< 0, 0 >>})
    \cup MouseInputEvents({"Left"})
    \cup MouseWheelEvents({LineDelta(0, 1)})

\* the events that carry the modifiers without announcing a change of them
CarryingTypes == {"KeyPress", "KeyRelease", "MousePress", "MouseRelease",
                  "MouseMotion", "MouseWheel"}

\* a key event of one of a flag's two keys sets the flag to "pressed", and
\* no other event changes the flag: the flag is that of the most recent
\* event of its keys
C24_Flags ==
    \A event \in ModifierSpecEvents :
      Interleave(event)
      => \A flag \in PairedFlags :
           gen'.modifiers[flag] =
             IF event \in EventsOfKeys(KeysOfFlag(flag))
             THEN event.state = "Pressed"
             ELSE gen.modifiers[flag]

\* every event appended by the step that carries modifiers carries those of
\* the generator at the push: a key, mouse or touch-derived event those the
\* step found and left, a ModifiersChange those the step wrote
C24_Carried ==
    \A i \in (Len(emitted) + 1) .. Len(emitted') :
      /\ emitted'[i].type \in CarryingTypes
         => /\ emitted'[i].modifiers = gen.modifiers
            /\ gen'.modifiers = gen.modifiers
      /\ emitted'[i].type = "ModifiersChange"
         => emitted'[i].modifiers = gen'.modifiers

\* C24: after any sequence of keyboard events each of the ctrl, alt and
\* shift flags is the pressed/released state of the most recent key event
\* of the flag's left and right keys, and false when there was none (every
\* such event is announced, so none was while nothing is emitted); a flag
\* is no count of held keys: a release of either key clears it whatever
\* was pressed before; and every KeyPress, KeyRelease, mouse and
\* touch-derived event carries the modifiers current when it was appended.
C24_FlagsFollowLatestKeyEvent ==
    /\ [](/\ emitted = << >> => gen.modifiers = NoModifiers
          /\ \A flag \in PairedFlags : \A key \in KeysOfFlag(flag) :
               ~Handled(gen, KeyEvent(key, "Released")).modifiers[flag])
    /\ [][C24_Flags /\ C24_Carried]_vars

\* two announcements of Ctrl down, then one of Ctrl up: the flag is clear
\* though one of the two presses was not released, and a key pressed now is
\* announced with ctrl clear
C24_Witness ==
    /\ Len(emitted) = 3
    /\ \A i \in 1 .. 3 : emitted[i].type = "ModifiersChange"
    /\ emitted[1].modifiers.ctrl
    /\ emitted[2].modifiers.ctrl
    /\ ~emitted[3].modifiers.ctrl
    /\ ~gen.modifiers.ctrl
    /\ Handled(gen, KeyEvent("A", "Pressed")).events[Len(gen.events) + 1]
         = KeyPress("A", gen.modifiers)

(***************************************************************************)
(* Claims about Rectangle, checked under SpecRectangle.                    *)
(***************************************************************************)
\* translation(center) * rotation(rotation) * nonuniform_scale(width,
\* height), written out: the columns of the product
TranslateRotateScale(center, turns, width, height) ==
    << << width * Cos(turns), width * Sin(turns), 0 >>,
       << -(height * Sin(turns)), height * Cos(turns), 0 >>,
       << center[1], center[2], 1 >> >>

\* radians `turns` (in quarter turns) are the angle given
IsAngle(turns, angle) ==
    IF angle.unit = "Rad" THEN turns = angle.value ELSE turns * 90 = angle.value

\* what a setter call does to what the getters return
C25_Setters ==
    LET before == Unwrap(rectangle)
        after  == Unwrap(rectangle')
        call   == Unwrap(rect_call')
    IN
    /\ call.op = "set_size"
       => /\ Rectangle_size(after) = call.args
          /\ Rectangle_center(after) = Rectangle_center(before)
          /\ Rectangle_rotation(after) = Rectangle_rotation(before)
    /\ call.op = "set_center"
       => /\ Rectangle_center(after) = call.args[1]
          /\ Rectangle_size(after) = Rectangle_size(before)
          /\ Rectangle_rotation(after) = Rectangle_rotation(before)
    /\ call.op = "set_rotation"
       => /\ IsAngle(Rectangle_rotation(after), call.args[1])
          /\ Rectangle_size(after) = Rectangle_size(before)
          /\ Rectangle_center(after) = Rectangle_center(before)

\* C25: a Rectangle no setter was called on returns the constructor's size,
\* center and rotation; a setter makes its getter return the value given
\* (an angle given in degrees is returned in radians) and leaves what the
\* other two getters return, so each getter returns the value most
\* recently set; and in every state the model's 2D transformation is
\* translation(center) * rotation(rotation) * nonuniform_scale(width,
\* height) of the values the getters return.
C25_GettersAndTransformation ==
    /\ [](IsSome(rectangle)
          => LET self == Unwrap(rectangle) IN
             /\ self.model.transformation_2d =
                  TranslateRotateScale(Rectangle_center(self),
                                       Rectangle_rotation(self),
                                       Rectangle_size(self)[1],
                                       Rectangle_size(self)[2])
             /\ IsNone(rect_call)
                => /\ Rectangle_size(self) = << 4, 5 >>
                   /\ Rectangle_center(self) = << 1, 1 >>
                   /\ IsAngle(Rectangle_rotation(self), Deg(270)))
    /\ [][C25_Setters]_vars

\* the center was set, then the rotation in degrees, the size never: the
\* size is the constructor's and the transformation is that of the three
C25_Witness ==
    /\ IsSome(rectangle)
    /\ rect_call = Some([op |-> "set_rotation", args |-> << Deg(180) >>])
    /\ Rectangle_size(Unwrap(rectangle)) = << 4, 5 >>
    /\ Rectangle_center(Unwrap(rectangle)) = << 2, -1 >>
    /\ Rectangle_rotation(Unwrap(rectangle)) = 2
    /\ Unwrap(rectangle).model.transformation_2d =
         << << -4, 0, 0 >>, << 0, -5, 0 >>, << 2, -1, 1 >> >>

====
